---- MODULE Spec2Model ----
(***************************************************************************)
(* KVD auction tracker: the auction store (table cars), the two scraper    *)
(* generations that write to it, the layered and legacy HTTP APIs that     *)
(* read and update it, the chat proxy of the layered API and the           *)
(* stand-alone AI assistant that turns LLM output into SQL.                *)
(***************************************************************************)
EXTENDS Integers, Sequences, FiniteSets, TLC

VARIABLES
    cars,           \* table cars: a set of rows
    nextId,         \* the next value of the primary-key sequence
    scr,            \* per scraper process: position in save_auction and its in-memory data
    del,            \* the request running CarRepository.delete_all
    api,            \* last request/response of a read or update endpoint
    px,             \* the chat proxy request (routes.chat_query)
    ai,             \* the AI assistant (simple_main)
    svc             \* the scraper service process (run_scheduled) and its scraper

vars == <<cars, nextId, scr, del, api, px, ai, svc>>

(***************************************************************************)
(* Bounds of the model.                                                    *)
(***************************************************************************)
MaxId == 3

(***************************************************************************)
(* Text.  A Python str is a sequence of one-character strings; the         *)
(* operators below are the str methods and the regular expressions the     *)
(* code applies, computed character by character.                          *)
(***************************************************************************)
MaxFrags == 3

UpperCase ==
    <<"A", "B", "C", "D", "E", "F", "G", "H", "I", "J", "K", "L", "M",
      "N", "O", "P", "Q", "R", "S", "T", "U", "V", "W", "X", "Y", "Z">>

\* The characters \s matches and str.strip() removes.
Whitespace == {" ", "\n", "\t", "\r"}

ToLower ==
    LET LowerCase ==
            <<"a", "b", "c", "d", "e", "f", "g", "h", "i", "j", "k", "l", "m",
              "n", "o", "p", "q", "r", "s", "t", "u", "v", "w", "x", "y", "z">>
    IN [c \in {UpperCase[i] : i \in 1..Len(UpperCase)} |->
           LowerCase[CHOOSE i \in 1..Len(UpperCase) : UpperCase[i] = c]]

lower_char(c) == IF c \in DOMAIN ToLower THEN ToLower[c] ELSE c

\* str.lower()
str_lower(s) == [i \in 1..Len(s) |-> lower_char(s[i])]

MinOf(S) == CHOOSE x \in S : \A y \in S : x <= y

\* s[i-1:].startswith(sub), for a 1-based index i.
StartsAt(s, sub, i) ==
    /\ i >= 1
    /\ i + Len(sub) - 1 <= Len(s)
    /\ \A k \in 1..Len(sub) : s[i + k - 1] = sub[k]

Occurrences(s, sub, from) ==
    {i \in from..(Len(s) - Len(sub) + 1) : StartsAt(s, sub, i)}

\* str.find(sub) from index `from`, 1-based; 0 when there is none (Python's -1).
str_find(s, sub, from) ==
    LET found == Occurrences(s, sub, from)
    IN IF found = {} THEN 0 ELSE MinOf(found)

\* sub in s
str_contains(s, sub) == str_find(s, sub, 1) # 0

\* The first index >= i that holds no whitespace (Len(s) + 1 at the end): where
\* a greedy \s* or \s+ that starts at i stops.
SkipSpace(s, i) ==
    MinOf({j \in i..(Len(s) + 1) : j = Len(s) + 1 \/ s[j] \notin Whitespace})

\* str.strip()
str_strip(s) ==
    LET keep == {i \in 1..Len(s) : s[i] \notin Whitespace}
    IN IF keep = {} THEN <<>>
       ELSE SubSeq(s, MinOf(keep), CHOOSE j \in keep : \A k \in keep : k <= j)

RECURSIVE SplitLines(_)
\* str.split('\n')
SplitLines(s) ==
    LET nl == str_find(s, <<"\n">>, 1)
    IN IF nl = 0 THEN <<s>>
       ELSE <<SubSeq(s, 1, nl - 1)>> \o SplitLines(SubSeq(s, nl + 1, Len(s)))

RECURSIVE JoinLines(_)
\* '\n'.join(lines)
JoinLines(lines) ==
    IF Len(lines) = 0 THEN <<>>
    ELSE IF Len(lines) = 1 THEN lines[1]
    ELSE lines[1] \o <<"\n">> \o JoinLines(Tail(lines))

RECURSIVE ChainsUpTo(_, _)
\* The strings made of at most n of the given pieces in a row.
ChainsUpTo(pieces, n) ==
    IF n = 0 THEN {<<>>}
    ELSE LET shorter == ChainsUpTo(pieces, n - 1)
         IN shorter \cup {t \o f : t \in shorter, f \in pieces}

S_semicolon ==
    <<";">>

\* The character ` (a TLA+ string cannot hold it).
Backtick == "<backtick>"

S_fence ==
    <<Backtick, Backtick, Backtick>>

S_fence_sql ==
    <<Backtick, Backtick, Backtick, "s", "q", "l">>

S_select ==
    <<"s", "e", "l", "e", "c", "t">>

S_from ==
    <<"f", "r", "o", "m">>

S_where ==
    <<"w", "h", "e", "r", "e">>

(***************************************************************************)
(* Values.                                                                 *)
(***************************************************************************)
\* Python's None for an Optional[int] column or field.
None == -1

\* The two scraper generations: src/src/scraper and src/scraper.
Scrapers == {"layered", "legacy"}

\* What parse_auction_details hands to save_auction: the details dict.  The
\* second listing carries the external id of the first with other field values.
Listings ==
    { [kvd_id |-> "volvo-xc90", url |-> "https://www.kvd.se/auktion/volvo-xc90",
       sale_date |-> 10, brand |-> "volvo", model |-> "xc90",
       mileage |-> 15, price |-> 100, year |-> 2020],
      [kvd_id |-> "volvo-xc90", url |-> "https://www.kvd.se/auktion/volvo-xc90",
       sale_date |-> 11, brand |-> "volvo", model |-> "xc90",
       mileage |-> None, price |-> 120, year |-> 2020],
      [kvd_id |-> "audi-a4", url |-> "https://www.kvd.se/auktion/audi-a4",
       sale_date |-> 10, brand |-> "audi", model |-> "a4",
       mileage |-> None, price |-> None, year |-> None] }

NoDetails == [kvd_id |-> "", url |-> "", sale_date |-> 0, brand |-> "", model |-> "",
              mileage |-> None, price |-> None, year |-> None]

(***************************************************************************)
(* The table: models.car.Car and the statements the code issues on it.     *)
(***************************************************************************)
\* select(Car).where(Car.kvd_id == kvd_id) ... first()
get_by_kvd_id(cs, kvd_id) == {c \in cs : c.kvd_id = kvd_id}

\* Column constraints of Car: kvd_id unique; year and mileage NOT NULL.
NotNullViolation(values) == values.year = None \/ values.mileage = None

UniqueViolationNever(cs, values) == FALSE

UniqueViolation(cs, values) == \E c \in cs : c.kvd_id = values.kvd_id

\* The row an INSERT of `values` stores, with the next primary key.
NewRow(id, values) ==
    [id |-> id, kvd_id |-> values.kvd_id, brand |-> values.brand,
     model |-> values.model, year |-> values.year, price |-> values.price,
     mileage |-> values.mileage, sale_date |-> values.sale_date,
     url |-> values.url]

\* Outcome of add + commit: "ok", or the constraint that made the commit fail.
InsertOutcome(cs, values) ==
    IF NotNullViolation(values) THEN "error:notnull"
    ELSE IF UniqueViolation(cs, values) THEN "error:unique"
    ELSE "ok"

(***************************************************************************)
(* CarService / scraper save_auction.                                      *)
(***************************************************************************)
check_if_car_exists_never(cs, kvd_id) == FALSE

\* CarService.check_if_car_exists: car is not None.
check_if_car_exists(cs, kvd_id) == get_by_kvd_id(cs, kvd_id) # {}

\* The values save_auction hands to the insert.  The layered scraper
\* substitutes 0 for a missing mileage or year; the legacy one passes
\* details.get(...) through unchanged.
save_values(s, details) ==
    IF s = "layered"
    THEN [details EXCEPT !.mileage = IF @ = None THEN 0 ELSE @,
                         !.year = IF @ = None THEN 0 ELSE @]
    ELSE details

\* processed_ids, and what the run loop last handled: the link, the detail page
\* the driver showed for it, whether that page was fetched, and the urls the
\* driver was sent to so far.
ScrInit == [s \in Scrapers |->
              [pc |-> "idle", details |-> NoDetails,
               auctions_data |-> <<>>, outcome |-> "none",
               processed_ids |-> {}, loads |-> {}, links |-> 0, fetched |-> FALSE,
               link |-> [url |-> <<>>, date |-> 0],
               page |-> [text |-> <<>>, spans |-> <<>>, year |-> <<>>]]]

\* The scraper service before it is started: where run_scheduled stands, its
\* schedule_type (`given` keeps the value it received), the runs it started
\* and the sleeps it took, the csv file of saved auctions, and the KVDScraper
\* of the run in progress.  `unsold` and `refetched` record the external
\* ids whose detail page was judged not sold, and those fetched again later.
SvcInit ==
    [pc |-> "off", schedule_type |-> "", given |-> "", events |-> <<>>,
     csv |-> {}, unsold |-> {}, refetched |-> {},
     scraper |-> [pc |-> "none", processed_ids |-> {}, quits |-> 0,
                  caught |-> FALSE, quit_failed |-> FALSE]]

\* `between` counts the commits of other sessions that fall between the two
\* statements of delete_all.
DelInit == [pc |-> "idle", count |-> 0, removed |-> 0, result |-> None,
            interfered |-> FALSE, between |-> 0]

\* A write by another session while delete_all is between its statements.
Interfere == [del EXCEPT !.interfered = @ \/ del.pc # "idle",
                         !.between = IF del.pc = "counted" THEN @ + 1 ELSE @]

\* save_auction is entered with the details dict.
SaveCall(s, d) ==
    /\ scr[s].pc = "idle"
    /\ scr' = [scr EXCEPT ![s].pc = "called", ![s].details = d,
                          ![s].outcome = "none"]
    /\ UNCHANGED <<cars, nextId, del, api, px, ai, svc>>

\* The existence check, and the early return when the id is stored.
SaveCheck(s) ==
    /\ scr[s].pc = "called"
    /\ IF check_if_car_exists(cars, scr[s].details.kvd_id)
       THEN scr' = [scr EXCEPT ![s].pc = "idle", ![s].outcome = "skipped"]
       ELSE scr' = [scr EXCEPT ![s].pc = "checked"]
    /\ UNCHANGED <<cars, nextId, del, api, px, ai, svc>>

\* The insert and commit, then the append to auctions_data (and save_to_csv);
\* any exception is caught and logged by save_auction.
SaveInsert(s) ==
    /\ scr[s].pc = "checked"
    /\ nextId <= MaxId
    /\ LET values == save_values(s, scr[s].details)
           out == InsertOutcome(cars, values)
       IN IF out = "ok"
          THEN /\ cars' = cars \cup {NewRow(nextId, values)}
               /\ nextId' = nextId + 1
               /\ scr' = [scr EXCEPT ![s].pc = "idle", ![s].outcome = "inserted",
                             ![s].auctions_data = Append(@, scr[s].details)]
               /\ del' = Interfere
          ELSE /\ scr' = [scr EXCEPT ![s].pc = "idle", ![s].outcome = out]
               /\ UNCHANGED <<cars, nextId, del>>
    /\ UNCHANGED <<api, px, ai, svc>>

(***************************************************************************)
(* CarRepository.get_filtered and delete_all.                              *)
(***************************************************************************)
\* Optional[str] = None for a query parameter that was not supplied.
NoneStr == "<None>"

NoFilters == [skip |-> 0, limit |-> 100, brand |-> NoneStr, model |-> NoneStr,
              year |-> None, min_price |-> None, max_price |-> None,
              min_mileage |-> None, max_mileage |-> None]

\* Python truthiness of an Optional[str] / Optional[int] argument.
TruthyStr(x) == x # NoneStr /\ x # ""

\* SQL comparison of a nullable integer column with a bound: NULL never matches.
SqlGe(col, bound) == col # None /\ col >= bound

SqlLe(col, bound) == col # None /\ col <= bound

\* The WHERE clause get_filtered builds.
Matches(c, q) ==
    /\ TruthyStr(q.brand) => c.brand = q.brand
    /\ TruthyStr(q.model) => c.model = q.model
    /\ (q.year # None /\ q.year # 0) => c.year = q.year
    /\ q.min_price # None => SqlGe(c.price, q.min_price)
    /\ q.max_price # None => SqlLe(c.price, q.max_price)
    /\ q.min_mileage # None => SqlGe(c.mileage, q.min_mileage)
    /\ q.max_mileage # None => SqlLe(c.mileage, q.max_mileage)

\* ORDER BY sale_date DESC: every order of the rows that is descending in
\* sale_date; the order among rows of equal sale_date is the database's choice.
OrderedBySaleDateDesc(rows) ==
    {o \in [1..Cardinality(rows) -> rows] :
        /\ \A i, j \in 1..Cardinality(rows) : i # j => o[i] # o[j]
        /\ \A i, j \in 1..Cardinality(rows) : i < j => o[i].sale_date >= o[j].sale_date}

\* OFFSET skip LIMIT limit.
OffsetLimit(o, skip, limit) ==
    LET last == IF skip + limit < Len(o) THEN skip + limit ELSE Len(o)
    IN SubSeq(o, skip + 1, last)

\* The result lists get_filtered can return.
get_filtered(cs, q) ==
    {OffsetLimit(o, q.skip, q.limit) :
        o \in OrderedBySaleDateDesc({c \in cs : Matches(c, q)})}

delete_all_count_after(cs) == 0

\* select(func.count(Car.id)); count = result.scalar() or 0
delete_all_count(cs) == Cardinality(cs)

delete_all_return_rowcount(count, removed) == removed

\* return count
delete_all_return(count, removed) == count

DeleteAllCount ==
    /\ del.pc = "idle"
    /\ del' = [pc |-> "counted", count |-> delete_all_count(cars), removed |-> 0,
               result |-> None, interfered |-> FALSE, between |-> 0]
    /\ UNCHANGED <<cars, nextId, scr, api, px, ai, svc>>

DeleteAllExec ==
    /\ del.pc = "counted"
    \* Car.__table__.delete() and commit: no row is left.
    /\ cars' = {}
    /\ del' = [del EXCEPT !.pc = "done",
                          !.result = delete_all_return(del.count, Cardinality(cars)),
                          !.removed = Cardinality(cars)]
    /\ UNCHANGED <<nextId, scr, api, px, ai, svc>>

\* routes.delete_all_cars answers with the count.
DeleteAllReturn ==
    /\ del.pc = "done"
    /\ del' = [del EXCEPT !.pc = "idle"]
    /\ UNCHANGED <<cars, nextId, scr, api, px, ai, svc>>

\* DELETE /api/v1/cars of the legacy API in another session: delete(Car) and
\* commit in one statement, on a table that holds rows.
LegacyDeleteAllCars ==
    /\ cars # {}
    /\ cars' = {}
    /\ del' = Interfere
    /\ UNCHANGED <<nextId, scr, api, px, ai, svc>>

(***************************************************************************)
(* Specification of the store under the scrapers and delete-all.           *)
(***************************************************************************)
ApiInit == [op |-> "none", updates |-> 0]

NoReply == [kind |-> "none", status |-> 0, parsable |-> FALSE, reported |-> "none"]

PxInit ==
    [pc |-> "idle", query |-> <<>>, health |-> NoReply, answer |-> NoReply,
     calls |-> <<>>, status |-> 0, body |-> [from |-> "none", text |-> "none"]]

AiInit ==
    [pc |-> "down", engine |-> "unset", sql_query |-> <<>>, sql_results |-> "",
     db_log |-> <<>>, response |-> [kind |-> "none", text |-> <<>>], sources |-> <<>>,
     select_in_output |-> FALSE]

Init ==
    /\ cars = {}
    /\ nextId = 1
    /\ scr = ScrInit
    /\ del = DelInit
    /\ api = ApiInit
    /\ px = PxInit
    /\ ai = AiInit
    /\ svc = SvcInit

Next ==
    \/ \E s \in Scrapers, d \in Listings : SaveCall(s, d)
    \/ \E s \in Scrapers : SaveCheck(s)
    \/ \E s \in Scrapers : SaveInsert(s)
    \/ DeleteAllCount
    \/ DeleteAllExec
    \/ DeleteAllReturn

Spec == Init /\ [][Next]_vars

\* delete_all of the layered API while the layered scraper inserts and the
\* legacy API deletes.
NextDeleteAll ==
    \/ \E d \in Listings : SaveCall("layered", d)
    \/ SaveCheck("layered")
    \/ SaveInsert("layered")
    \/ DeleteAllCount
    \/ DeleteAllExec
    \/ DeleteAllReturn
    \/ LegacyDeleteAllCars

SpecDeleteAll == Init /\ [][NextDeleteAll]_vars

(***************************************************************************)
(* Claims about the scrapers' saves and delete-all, checked under Spec.    *)
(***************************************************************************)
\* C1: a save_auction call for an external id that is already stored returns
\* at the existence check: no row is inserted or changed, nothing is appended
\* to auctions_data, and the call ends as a skip, not as an error.
C1_SaveExistingIsNoOp ==
    [][\A s \in Scrapers :
          (/\ scr[s].pc = "called"
           /\ scr'[s].pc # "called"
           /\ get_by_kvd_id(cars, scr[s].details.kvd_id) # {})
          => (/\ cars' = cars
              /\ nextId' = nextId
              /\ scr'[s].auctions_data = scr[s].auctions_data
              /\ scr'[s].pc = "idle"
              /\ scr'[s].outcome = "skipped")]_vars

\* A scraper that inserted an id was called with it again and skipped; the
\* table holds exactly one row for it.
C1_Witness ==
    \E s \in Scrapers :
        /\ scr[s].pc = "idle"
        /\ scr[s].outcome = "skipped"
        /\ \E i \in 1..Len(scr[s].auctions_data) :
              scr[s].auctions_data[i].kvd_id = scr[s].details.kvd_id
        /\ Cardinality(get_by_kvd_id(cars, scr[s].details.kvd_id)) = 1

\* C2: the table never holds two rows with the same kvd_id, also when two
\* scrapers both pass the existence check for an id before either inserts;
\* and no step of a scraper removes or changes a stored row.
C2_OneRowPerKvdIdNeverOverwritten ==
    /\ [](\A c1, c2 \in cars : c1.kvd_id = c2.kvd_id => c1 = c2)
    /\ [][scr' # scr => \A c \in cars : c \in cars']_vars

\* Both scrapers passed the check for one id with different field values; one
\* inserted, the other's insert was rejected, and the stored row is the first's.
C2_Witness ==
    \E s, t \in Scrapers :
        /\ s # t
        /\ scr[s].outcome = "inserted"
        /\ scr[t].outcome = "error:unique"
        /\ scr[s].details.kvd_id = scr[t].details.kvd_id
        /\ scr[s].details.price # scr[t].details.price
        /\ \E c \in cars : c.kvd_id = scr[s].details.kvd_id
                           /\ c.price = scr[s].details.price

\* C6: when no other session writes while delete_all runs, the count it
\* returns is the number of rows it removed, and an unfiltered listing
\* afterwards is empty.
C6_DeleteAllReturnsCountAndEmpties ==
    (del.pc = "done" /\ ~del.interfered)
        => (/\ del.result = del.removed
            /\ get_filtered(cars, NoFilters) = {<<>>})

\* delete_all ran undisturbed on a table of at least one row.
C6_Witness ==
    /\ del.pc = "done"
    /\ ~del.interfered
    /\ del.removed >= 1
    /\ del.result = del.removed

MaxUpdates == 2

\* The day number of date.today().
Today == 400

\* Rows as the scrapers stored them: two sales of one make/model (one recent,
\* one 200 days ago), one sale older than a year with unknown price, and one
\* of another make sold on the same day as the first.
SeedRows ==
    { [id |-> 1, kvd_id |-> "volvo-xc90-a", brand |-> "volvo", model |-> "xc90",
       year |-> 2020, price |-> 100, mileage |-> 15, sale_date |-> Today - 1,
       url |-> "https://www.kvd.se/auktion/volvo-xc90-a"],
      [id |-> 2, kvd_id |-> "volvo-xc90-b", brand |-> "volvo", model |-> "xc90",
       year |-> 2018, price |-> 60, mileage |-> 20, sale_date |-> Today - 200,
       url |-> "https://www.kvd.se/auktion/volvo-xc90-b"],
      [id |-> 3, kvd_id |-> "volvo-v70", brand |-> "volvo", model |-> "v70",
       year |-> 0, price |-> None, mileage |-> 0, sale_date |-> Today - 400,
       url |-> "https://www.kvd.se/auktion/volvo-v70"],
      [id |-> 4, kvd_id |-> "audi-a4", brand |-> "audi", model |-> "a4",
       year |-> 2019, price |-> 80, mileage |-> 9, sale_date |-> Today - 1,
       url |-> "https://www.kvd.se/auktion/audi-a4"] }

CarIds == 1..5

NotNullColumns == {"kvd_id", "brand", "model", "year", "mileage", "sale_date", "url"}

\* The value None of a field, by the field's type.
NoneOf(f) == IF f \in {"kvd_id", "brand", "model", "url"} THEN NoneStr ELSE None

\* A CarUpdate instance: the fields the request set, and every field's value
\* (None by default).
CarUpdate(fields_set, given) ==
    [fields_set |-> fields_set,
     values |-> [f \in {"brand", "model", "year", "price", "mileage", "sale_date",
                        "url"} |->
                   IF f \in DOMAIN given THEN given[f] ELSE NoneOf(f)]]

UpdateBodies ==
    { CarUpdate({"brand", "price"}, [brand |-> "saab", price |-> 220]),
      CarUpdate({"brand", "price", "mileage"},
                [brand |-> "saab", price |-> 220, mileage |-> 8]),
      CarUpdate({"price"}, [price |-> None]),
      CarUpdate({"model"}, [model |-> NoneStr]),
      CarUpdate({}, [price |-> None]) }

model_dump_all(car_data) == car_data.values

\* car_data.model_dump(exclude_unset=True): only the fields the request set.
model_dump_exclude_unset(car_data) ==
    [f \in car_data.fields_set |-> car_data.values[f]]

\* repository.get(db, car_id): the row with that id, if any.
repository_get(cs, car_id) == {c \in cs : c.id = car_id}

\* repository.update(db, db_obj, obj_in): each key of obj_in is set on the row.
repository_update(db_obj, obj_in) ==
    [f \in DOMAIN db_obj |-> IF f \in DOMAIN obj_in THEN obj_in[f] ELSE db_obj[f]]

NotFound == [id |-> 0]

\* CarService.update_car.
UpdateCar(car_id, car_data) ==
    /\ api.updates < MaxUpdates
    /\ LET found == repository_get(cars, car_id)
           req == [car_id |-> car_id, body |-> car_data]
       IN IF found = {}
          THEN /\ api' = [op |-> "update_car", req |-> req, status |-> "absent",
                          res |-> NotFound, updates |-> api.updates + 1]
               /\ UNCHANGED cars
          ELSE LET car == CHOOSE c \in found : TRUE
                   new == repository_update(car, model_dump_exclude_unset(car_data))
                   \* The commit of an updated row fails when a NOT NULL column
                   \* holds NULL.
                   UpdateRejected == \E f \in NotNullColumns : new[f] = NoneOf(f)
               IN IF UpdateRejected
                  THEN /\ api' = [op |-> "update_car", req |-> req,
                                  status |-> "error", res |-> NotFound,
                                  updates |-> api.updates + 1]
                       /\ UNCHANGED cars
                  ELSE /\ api' = [op |-> "update_car", req |-> req, status |-> "ok",
                                  res |-> new, updates |-> api.updates + 1]
                       /\ cars' = (cars \ {car}) \cup {new}
    /\ UNCHANGED <<nextId, scr, del, px, ai, svc>>

\* CarService.get_car / GET /cars/{car_id}.
GetCar(car_id) ==
    /\ LET found == repository_get(cars, car_id)
       IN api' = [op |-> "get_car", req |-> [car_id |-> car_id],
                  status |-> IF found = {} THEN "absent" ELSE "ok",
                  res |-> IF found = {} THEN NotFound ELSE CHOOSE c \in found : TRUE,
                  updates |-> api.updates]
    /\ UNCHANGED <<cars, nextId, scr, del, px, ai, svc>>

ApiIdle == [op |-> "none", req |-> [car_id |-> 0], status |-> "none",
            res |-> NotFound, updates |-> 0]

InitApi ==
    /\ cars \in SUBSET SeedRows
    /\ nextId = 5
    /\ scr = ScrInit
    /\ del = DelInit
    /\ api = ApiIdle
    /\ px = PxInit
    /\ ai = AiInit
    /\ svc = SvcInit

NextApi ==
    \/ \E car_id \in CarIds, car_data \in UpdateBodies : UpdateCar(car_id, car_data)
    \/ \E car_id \in CarIds : GetCar(car_id)

SpecApi == InitApi /\ [][NextApi]_vars

\* C5: update_car changes, on the row it is given, exactly the fields the
\* request set and no other field (id and kvd_id included), leaves every
\* other row as it was, and a get of the same id returns the updated row; a
\* request whose values the columns accept is applied.
C5_UpdateChangesOnlySuppliedFields ==
    [][api'.op = "update_car" =>
        LET car_id == api'.req.car_id
            body == api'.req.body
            before == repository_get(cars, car_id)
            after == repository_get(cars', car_id)
        IN /\ \A c \in cars : c.id # car_id => c \in cars'
           /\ \A c \in cars' : c.id # car_id => c \in cars
           /\ before = {} => (after = {} /\ api'.status = "absent")
           /\ \A b \in before :
                /\ Cardinality(after) = 1
                /\ \A a \in after :
                     /\ \A f \in DOMAIN b :
                           f \notin body.fields_set => a[f] = b[f]
                     /\ api'.status = "ok" =>
                           /\ \A f \in body.fields_set : a[f] = body.values[f]
                           /\ api'.res = a
                     /\ api'.status # "ok" => a = b
                /\ (\A f \in body.fields_set \cap NotNullColumns :
                       body.values[f] # NoneOf(f)) => api'.status = "ok"]_vars

\* A get after an update of brand and price only: the two are the new values,
\* model, year and mileage are those of the seeded row.
C5_Witness ==
    /\ api.op = "get_car"
    /\ api.status = "ok"
    /\ api.res.id = 1
    /\ api.res.kvd_id = "volvo-xc90-a"
    /\ api.res.brand = "saab"
    /\ api.res.price = 220
    /\ api.res.model = "xc90"
    /\ api.res.year = 2020
    /\ api.res.mileage = 15

(***************************************************************************)
(* The layered API's read endpoints on a seeded table.                     *)
(***************************************************************************)
Makes == {"volvo", "audi", "saab"}

\* Query(90, ge=1, le=365) of the statistics endpoint.
PeriodDefault == 90

PeriodMin == 1

PeriodMax == 365

\* CarRepository.get_by_brand_and_model: the result lists it can return.
get_by_brand_and_model(cs, brand, model, skip, limit) ==
    {OffsetLimit(o, skip, limit) :
        o \in OrderedBySaleDateDesc({c \in cs : c.brand = brand /\ c.model = model})}

\* CarRepository.get_models_by_brand: the distinct models of the brand (the
\* alphabetical order of the list is left out).
get_models_by_brand(cs, brand) == {c.model : c \in {x \in cs : x.brand = brand}}

\* routes.get_models_by_make: one ModelResponse per model, auction_count the
\* length of get_cars_by_make_and_model(db, make, model, 0, 0).
get_models_by_make(cs, make) ==
    {[name |-> m,
      auction_count |-> Len(CHOOSE r \in get_by_brand_and_model(cs, make, m, 0, 0) : TRUE)] :
        m \in get_models_by_brand(cs, make)}

RECURSIVE SumField(_, _)
\* SUM(column) over rows whose column is not NULL.
SumField(rows, f) ==
    IF rows = {} THEN 0
    ELSE LET r == CHOOSE x \in rows : TRUE
         IN (IF r[f] = None THEN 0 ELSE r[f]) + SumField(rows \ {r}, f)

RECURSIVE Gcd(_, _)
Gcd(a, b) == IF b = 0 THEN a ELSE Gcd(b, a % b)

\* A float that is the quotient of two naturals, as a reduced fraction.
Float(num, den) ==
    IF num = 0 THEN <<0, 1>> ELSE <<num \div Gcd(num, den), den \div Gcd(num, den)>>

\* float(AVG(column) or 0): NULLs do not count; NULL (no value) gives 0.0.
AvgField(rows, f) ==
    LET vals == {r \in rows : r[f] # None}
    IN IF vals = {} THEN Float(0, 1) ELSE Float(SumField(vals, f), Cardinality(vals))

\* The aggregate select of get_statistics over a set of rows, in the shape
\* of Statistics; price_trend is the constant 0.0.
Aggregate(rows) ==
    LET \* MIN(column) or 0, MAX(column) or 0: NULLs do not count.
        vals(f) == {r[f] : r \in {x \in rows : x[f] # None}}
        MinField(f) ==
            IF vals(f) = {} THEN 0 ELSE CHOOSE v \in vals(f) : \A w \in vals(f) : v <= w
        MaxField(f) ==
            IF vals(f) = {} THEN 0 ELSE CHOOSE v \in vals(f) : \A w \in vals(f) : v >= w
    IN [count |-> Cardinality(rows),
        avg_price |-> AvgField(rows, "price"),
        min_price |-> MinField("price"),
        max_price |-> MaxField("price"),
        avg_mileage |-> AvgField(rows, "mileage"),
        total_value |-> SumField(rows, "price"),
        price_trend |-> Float(0, 1)]

\* CarRepository.get_statistics: .filter(Car.brand == brand, Car.model == model).
get_statistics(cs, brand, model) ==
    Aggregate({c \in cs : c.brand = brand /\ c.model = model})

\* GET /makes/{make}/models.
GetModelsByMake(make) ==
    /\ api' = [op |-> "get_models_by_make", req |-> [make |-> make],
               status |-> "200", res |-> get_models_by_make(cars, make),
               updates |-> api.updates]
    /\ UNCHANGED <<cars, nextId, scr, del, px, ai, svc>>

\* GET /models/{make}/{model}/statistics?period=...: a period outside
\* [1, 365] is rejected by the parameter validation.
GetModelStatistics(make, model, period) ==
    /\ api' = [op |-> "get_model_statistics",
               req |-> [make |-> make, model |-> model, period |-> period],
               status |-> IF period >= PeriodMin /\ period <= PeriodMax
                          THEN "200" ELSE "422",
               res |-> IF period >= PeriodMin /\ period <= PeriodMax
                       THEN get_statistics(cars, make, model)
                       ELSE Aggregate({}),
               updates |-> api.updates]
    /\ UNCHANGED <<cars, nextId, scr, del, px, ai, svc>>

NextQuery ==
    \/ \E make \in Makes : GetModelsByMake(make)
    \/ \E make \in Makes, model \in {"xc90", "v70", "a4"},
             period \in {0, PeriodMin, PeriodDefault, PeriodMax, PeriodMax + 1} :
          GetModelStatistics(make, model, period)

SpecQuery == InitApi /\ [][NextQuery]_vars

\* C9: every auction_count of GET /makes/{make}/models is the number of
\* stored records of that make and model.
C9_AuctionCountIsRecordCount ==
    api.op = "get_models_by_make" =>
        \A m \in api.res :
            m.auction_count =
                Cardinality({c \in cars : c.brand = api.req.make /\ c.model = m.name})

\* C10: the statistics answered for period p aggregate only the records of
\* the make/model sold within the trailing p days.
C10_StatisticsOnlyWithinPeriod ==
    (api.op = "get_model_statistics" /\ api.status = "200") =>
        api.res = Aggregate({c \in cars :
                               /\ c.brand = api.req.make
                               /\ c.model = api.req.model
                               /\ c.sale_date >= Today - api.req.period})

(***************************************************************************)
(* The AI assistant (simple_main): extract_sql_query.                      *)
(***************************************************************************)
NoMatch == [found |-> FALSE, group |-> <<>>]

Match(g) == [found |-> TRUE, group |-> g]

\* re.search(r"```sql\s*(.*?)\s*```", text, IGNORECASE | DOTALL): from the
\* first ```sql, past the whitespace after it, up to the whitespace before the
\* next ```.
SearchFencedSql(text) ==
    LET p == str_find(str_lower(text), S_fence_sql, 1)
        \* The start of the whitespace run that ends just before index c, not
        \* below a.
        SpaceRunStart(s, c, a) ==
            MinOf({q \in a..c : \A k \in q..(c - 1) : s[k] \in Whitespace})
    IN IF p = 0 THEN NoMatch
       ELSE LET a == SkipSpace(text, p + Len(S_fence_sql))
                c == str_find(text, S_fence, a)
            IN IF c = 0 THEN NoMatch
               ELSE Match(SubSeq(text, a, SpaceRunStart(text, c, a) - 1))

\* Where group 1 of r"```\s*(SELECT.*?;)\s*```" ends when the group starts at
\* a: the first ';' after SELECT that whitespace and ``` follow; 0 if none.
FencedSelectEnd(text, a) ==
    LET ends == {e \in (a + Len(S_select))..Len(text) :
                    /\ text[e] = ";"
                    /\ StartsAt(text, S_fence, SkipSpace(text, e + 1))}
    IN IF ends = {} THEN 0 ELSE MinOf(ends)

\* re.search(r"```\s*(SELECT.*?;)\s*```", ...): the leftmost ``` that is
\* followed by whitespace, SELECT and such an end.
SearchFencedSelect(text) ==
    LET starts == {p \in Occurrences(text, S_fence, 1) :
                      LET a == SkipSpace(text, p + Len(S_fence))
                      IN /\ StartsAt(str_lower(text), S_select, a)
                         /\ FencedSelectEnd(text, a) # 0}
    IN IF starts = {} THEN NoMatch
       ELSE LET a == SkipSpace(text, MinOf(starts) + Len(S_fence))
            IN Match(SubSeq(text, a, FencedSelectEnd(text, a)))

\* The positions where SELECT\s+ matches: SELECT, then at least one whitespace.
SelectStarts(text) ==
    {p \in Occurrences(str_lower(text), S_select, 1) :
        /\ p + Len(S_select) <= Len(text)
        /\ text[p + Len(S_select)] \in Whitespace}

\* re.search(r"(SELECT\s+.*?;)", ...): from the leftmost SELECT\s+ that a ';'
\* follows, up to the first ';'.
SearchSelectSemicolon(text) ==
    LET starts == {p \in SelectStarts(text) :
                      str_find(text, S_semicolon, p + Len(S_select)) # 0}
    IN IF starts = {} THEN NoMatch
       ELSE Match(SubSeq(text, MinOf(starts),
                         str_find(text, S_semicolon, MinOf(starts) + Len(S_select))))

\* A keyword of the fourth pattern at index k: \s+KEYWORD\s+ needs whitespace
\* on both sides of it.
KeywordAt(text, word, k) ==
    /\ k >= 2
    /\ StartsAt(str_lower(text), word, k)
    /\ text[k - 1] \in Whitespace
    /\ k + Len(word) <= Len(text)
    /\ text[k + Len(word)] \in Whitespace

\* The index of the keyword that X\s+.*?\s+KEYWORD\s+ matches when X ends just
\* before index i, among the indexes in `allowed` (those from which the rest
\* of the pattern matches): the greedy \s+ first takes the whole whitespace run
\* and the lazy .*? then stops at the first keyword after more text; only when
\* there is none does \s+ give back one character for a keyword right after
\* the run.  0 if there is none.
LazyKeyword(text, word, i, allowed) ==
    LET run_end == SkipSpace(text, i)
        later == {k \in (run_end + 2)..Len(text) :
                    KeywordAt(text, word, k) /\ k \in allowed}
    IN IF later # {} THEN MinOf(later)
       ELSE IF run_end - i >= 2 /\ KeywordAt(text, word, run_end) /\ run_end \in allowed
            THEN run_end
            ELSE 0

\* WHERE for a FROM at index f.
WhereAfterFrom(text, f) ==
    LazyKeyword(text, S_where, f + Len(S_from), 1..Len(text))

\* FROM for a SELECT at index p: one that a WHERE follows.
FromAfterSelect(text, p) ==
    LazyKeyword(text, S_from, p + Len(S_select),
                {f \in 1..Len(text) : KeywordAt(text, S_from, f) /\ WhereAfterFrom(text, f) # 0})

\* re.search(r"(SELECT\s+.*?\s+FROM\s+.*?\s+WHERE\s+.*?(?:GROUP BY|ORDER BY|LIMIT|$))", ...)
SearchSelectFromWhere(text) ==
    LET starts == {p \in SelectStarts(text) : FromAfterSelect(text, p) # 0}
        lo == str_lower(text)
        S_group_by == <<"g", "r", "o", "u", "p", " ", "b", "y">>
        S_order_by == <<"o", "r", "d", "e", "r", " ", "b", "y">>
        S_limit == <<"l", "i", "m", "i", "t">>
        \* The last index of what .*?(?:GROUP BY|ORDER BY|LIMIT|$) matches from
        \* index i on: up to and including the first of the three keywords, or
        \* to the end of the text ($ also matches before a final newline).
        EndAt(t) ==
            IF StartsAt(lo, S_group_by, t) THEN t + Len(S_group_by) - 1
            ELSE IF StartsAt(lo, S_order_by, t) THEN t + Len(S_order_by) - 1
            ELSE IF StartsAt(lo, S_limit, t) THEN t + Len(S_limit) - 1
            ELSE IF t = Len(text) + 1 \/ (t = Len(text) /\ text[t] = "\n") THEN t - 1
            ELSE 0
        TailEnd(i) == EndAt(MinOf({t \in i..(Len(text) + 1) : EndAt(t) # 0}))
    IN IF starts = {} THEN NoMatch
       ELSE LET p == MinOf(starts)
                h == WhereAfterFrom(text, FromAfterSelect(text, p))
            IN Match(SubSeq(text, p,
                            TailEnd(SkipSpace(text, h + Len(S_where)))))

\* if not sql.strip().endswith(';'): sql = sql.strip() + ';'  ...  sql.strip()
EnsureSemicolon(sql) ==
    IF str_strip(sql) # <<>> /\ str_strip(sql)[Len(str_strip(sql))] = ";"
    THEN str_strip(sql)
    ELSE str_strip(sql) \o S_semicolon

\* end_markers of extract_sql_query, in its order.
EndMarkers ==
    <<S_semicolon,
      <<"\n", "\n">>,
      <<"t", "h", "i", "s", " ", "q", "u", "e", "r", "y">>,
      <<"t", "h", "e", " ", "q", "u", "e", "r", "y">>,
      <<"w", "i", "l", "l", " ", "g", "i", "v", "e">>,
      <<"r", "e", "t", "u", "r", "n", "s">>>>

\* The least end_pos a marker must have (end_pos > 10, 0-based).
MinEndPos == 10

\* The number of lines kept when no end marker is found.
MaxLines == 10

\* The fallback of extract_sql_query on sql_fragment, the text from the first
\* SELECT\s+ on: cut at the first marker (in the list's order) whose first
\* occurrence lies beyond MinEndPos, else keep the first MaxLines lines.
CutFragment(sql_fragment) ==
    LET lo == str_lower(sql_fragment)
        \* 0-based end_pos of marker i, -1 if absent
        EndPos(i) == str_find(lo, EndMarkers[i], 1) - 1
        usable == {i \in 1..Len(EndMarkers) : EndPos(i) > MinEndPos}
    IN IF usable # {}
       THEN LET i == MinOf(usable)
                sql == SubSeq(sql_fragment, 1, EndPos(i))
            IN IF EndMarkers[i] = S_semicolon
               THEN str_strip(sql \o S_semicolon)
               ELSE str_strip(str_strip(sql) \o S_semicolon)
       ELSE LET lines == SplitLines(sql_fragment)
                n == IF Len(lines) < MaxLines THEN Len(lines) ELSE MaxLines
            IN EnsureSemicolon(JoinLines(SubSeq(lines, 1, n)))

\* extract_sql_query(response_text)
extract_sql_query(response_text) ==
    IF SearchFencedSql(response_text).found
    THEN EnsureSemicolon(SearchFencedSql(response_text).group)
    ELSE IF SearchFencedSelect(response_text).found
    THEN EnsureSemicolon(SearchFencedSelect(response_text).group)
    ELSE IF SearchSelectSemicolon(response_text).found
    THEN EnsureSemicolon(SearchSelectSemicolon(response_text).group)
    ELSE IF SearchSelectFromWhere(response_text).found
    THEN EnsureSemicolon(SearchSelectFromWhere(response_text).group)
    ELSE IF SelectStarts(response_text) # {}
    THEN CutFragment(SubSeq(response_text, MinOf(SelectStarts(response_text)),
                            Len(response_text)))
    ELSE <<>>

(***************************************************************************)
(* The AI assistant (simple_main): execute_sql_query.                      *)
(***************************************************************************)
ForbiddenWords ==
    {<<"i", "n", "s", "e", "r", "t">>,
     <<"u", "p", "d", "a", "t", "e">>,
     <<"d", "e", "l", "e", "t", "e">>,
     <<"d", "r", "o", "p">>,
     <<"a", "l", "t", "e", "r">>,
     <<"t", "r", "u", "n", "c", "a", "t", "e">>}

\* A guard that compares the statement as written.
sql_as_written(sql_query) == sql_query

\* sql_lower = sql_query.lower()
sql_lower(sql_query) == str_lower(sql_query)

\* execute_sql_query(sql_query) under the engine set at startup and database
\* outcome db: the result text (by kind) and the statements handed to
\* conn.execute.
execute_sql_query(engine, sql_query, db) ==
    IF engine = "unset"
    THEN [result |-> "not_initialized", sent |-> <<>>]
    ELSE IF LET lowered == sql_lower(sql_query)
            IN \E word \in ForbiddenWords : str_contains(lowered, word)
    THEN [result |-> "only_select", sent |-> <<>>]
    ELSE IF engine = "none"
    THEN [result |-> "error", sent |-> <<>>]
    ELSE IF db = "connect_error"
    THEN [result |-> "sql_error", sent |-> <<>>]
    ELSE [result |-> db, sent |-> <<sql_query>>]

(***************************************************************************)
(* The AI assistant (simple_main): the final response of chat.             *)
(***************************************************************************)
MinCleanLen == 20

RECURSIVE DropMentioningLines(_)
\* The lines but the last that '.*the (?:sql|query).*?\n' matches are dropped.
DropMentioningLines(lines) ==
    LET MentionsTheQuery(line) ==
            \/ str_contains(str_lower(line), <<"t", "h", "e", " ", "s", "q", "l">>)
            \/ str_contains(str_lower(line),
                            <<"t", "h", "e", " ", "q", "u", "e", "r", "y">>)
    IN IF Len(lines) = 1 THEN lines[1]
       ELSE (IF MentionsTheQuery(lines[1]) THEN <<>> ELSE lines[1] \o <<"\n">>)
            \o DropMentioningLines(Tail(lines))

\* re.sub(r'(?i).*the (?:sql|query).*?\n', '', response_text)
cleaner_response(response_text) == DropMentioningLines(SplitLines(response_text))

\* The filtering of a 200 reply of the final LLM call.
clean_response(response_text) ==
    LET mentions == \/ str_contains(str_lower(response_text), <<"s", "q", "l">>)
                    \/ str_contains(str_lower(response_text), <<"q", "u", "e", "r", "y">>)
        cleaned == IF /\ mentions
                      /\ Len(str_strip(cleaner_response(response_text))) >= MinCleanLen
                   THEN cleaner_response(response_text)
                   ELSE response_text
        \* re.search(r'X+\s*kr', response_text)
        HasPlaceholder(text) ==
            \E i \in 1..Len(text) :
                /\ text[i] = "X"
                /\ LET j == MinOf({k \in i..(Len(text) + 1) :
                                     k = Len(text) + 1 \/ text[k] # "X"})
                   IN StartsAt(text, <<"k", "r">>, SkipSpace(text, j))
    IN IF HasPlaceholder(cleaned)
       THEN [kind |-> "generic", text |-> <<>>]
       ELSE [kind |-> "llm", text |-> cleaned]

\* Replies of the final LLM call.
Replies ==
    {<<>>,
     <<" ", " ">>,
     <<"B", "a", "s", "e", "d", " ", "o", "n", " ", "o", "u", "r", " ",
       "a", "u", "c", "t", "i", "o", "n", " ", "d", "a", "t", "a", ",", " ",
       "5", " ", "c", "a", "r", "s", ".">>,
     <<"T", "h", "e", " ", "S", "Q", "L", " ", "q", "u", "e", "r", "y", " ",
       "s", "h", "o", "w", "s", "\n",
       "B", "a", "s", "e", "d", " ", "o", "n", " ", "o", "u", "r", " ",
       "a", "u", "c", "t", "i", "o", "n", " ", "d", "a", "t", "a", ":", " ",
       "1", "0", "0", " ", "k", "r">>,
     <<"A", "s", " ", "t", "h", "e", " ", "q", "u", "e", "r", "y", " ",
       "s", "a", "y", "s", "\n", "5", " ", "c", "a", "r", "s">>,
     <<"B", "a", "s", "e", "d", " ", "o", "n", " ", "o", "u", "r", " ",
       "d", "a", "t", "a", ",", " ", "X", "X", " ", "k", "r">>}

\* clean_response of every reply.
CleanedReply == [r \in Replies |-> clean_response(r)]

\* Step 3 of chat: the ChatResponse for outcome fin of the final LLM call.
final_response(fin, sql_query) ==
    IF fin.status = "200"
    THEN IF str_strip(fin.response) = <<>>
         THEN [response |-> [kind |-> "empty_apology", text |-> <<>>], sources |-> <<>>]
         ELSE [response |-> CleanedReply[fin.response],
               sources |-> IF sql_query # <<>> THEN <<sql_query>> ELSE <<>>]
    ELSE IF fin.status = "timeout"
    THEN [response |-> [kind |-> "delay_apology", text |-> <<>>], sources |-> <<>>]
    ELSE IF fin.status = "error"
    THEN [response |-> [kind |-> "issue_apology", text |-> <<>>], sources |-> <<>>]
    ELSE [response |-> [kind |-> "trouble_apology", text |-> <<>>], sources |-> <<>>]

(***************************************************************************)
(* The AI assistant (simple_main): startup and the chat pipeline.          *)
(***************************************************************************)
\* LLM output: up to MaxFrags of these pieces in a row.
LlmTexts ==
    ChainsUpTo(
    {<<Backtick, Backtick, Backtick, "s", "q", "l", "\n">>,
     <<"\n", Backtick, Backtick, Backtick>>,
     <<"S", "E", "L", "E", "C", "T", " ", "a", " ", "F", "R", "O", "M", " ", "t">>,
     <<" ", "W", "H", "E", "R", "E", " ", "b">>,
     S_semicolon,
     <<"D", "R", "O", "P", " ", "T", "A", "B", "L", "E", " ", "c", "a", "r", "s">>,
     <<"C", "R", "E", "A", "T", "E", " ", "T", "A", "B", "L", "E", " ", "x">>},
    MaxFrags)

\* startup_event()
Startup(engine) ==
    /\ ai.pc = "down"
    /\ ai' = [ai EXCEPT !.pc = "idle", !.engine = engine]
    /\ UNCHANGED <<cars, nextId, scr, del, api, px, svc>>

\* extract_sql_query(full_response) of every generated text, where
\* full_response = sql_result.get("response", "").strip()
GeneratedSql == [t \in LlmTexts |-> extract_sql_query(str_strip(t))]

\* chat(query): generate SQL (outcome gen of the LLM call), execute it if
\* there is any (outcome db of the database), generate the answer (outcome fin
\* of the LLM call).
Chat(gen) ==
    /\ ai.pc = "idle"
    /\ LET sql_query == IF gen.status = "200"
                        THEN GeneratedSql[gen.response]
                        ELSE <<>>
           \* whether the generated text holds SELECT in any letter case
           select_in_output ==
               gen.status = "200" /\ str_contains(str_lower(gen.response), S_select)
       \* The database on one statement: connect() fails, execute() raises, or
       \* the statement runs and yields rows or none.
       IN \E db \in {"connect_error", "sql_error", "rows", "no_rows"} :
          LET exec == IF sql_query # <<>>
                      THEN execute_sql_query(ai.engine, sql_query, db)
                      ELSE [result |-> "", sent |-> <<>>]
          \* Outcomes of the final-response call to the LLM.
          IN \E fin \in [status : {"200"}, response : Replies]
                            \cup [status : {"500", "timeout", "error"},
                                  response : {<<>>}] :
             LET out == final_response(fin, sql_query)
             IN ai' = [ai EXCEPT !.pc = "done",
                                 !.sql_query = sql_query,
                                 !.sql_results = exec.result,
                                 !.db_log = exec.sent,
                                 !.response = out.response,
                                 !.sources = out.sources,
                                 !.select_in_output = select_in_output]
    /\ UNCHANGED <<cars, nextId, scr, del, api, px, svc>>

\* The ChatResponse is sent; the service waits for the next request.
ChatReturn ==
    /\ ai.pc = "done"
    /\ ai' = [AiInit EXCEPT !.pc = "idle", !.engine = ai.engine]
    /\ UNCHANGED <<cars, nextId, scr, del, api, px, svc>>

NextAssistant ==
    \* get_db_engine(): the engine, or None when create_engine raised.
    \/ \E engine \in {"engine", "none"} : Startup(engine)
    \* Outcomes of the SQL-generation call to the LLM.
    \/ \E gen \in [status : {"200"}, response : LlmTexts]
                      \cup [status : {"500", "error"}, response : {<<>>}] : Chat(gen)
    \/ ChatReturn

SpecAssistant == Init /\ [][NextAssistant]_vars

\* C3: a candidate statement that contains insert, update, delete, drop,
\* alter or truncate in any letter case yields "Error: Only SELECT queries
\* are allowed." and is never handed to the database.
C3_ForbiddenStatementNeverSent ==
    LET forbidden(stmt) ==
            \E w \in ForbiddenWords :
                str_contains(str_lower(stmt), w)
    IN /\ \A i \in DOMAIN ai.db_log : ~forbidden(ai.db_log[i])
       /\ (ai.pc = "done" /\ ai.sql_query # <<>> /\ forbidden(ai.sql_query))
              => (ai.sql_results = "only_select" /\ ai.db_log = <<>>)

\* A request whose generated statement is DROP TABLE cars was answered under a
\* live engine.
C3_Witness ==
    /\ ai.pc = "done"
    /\ ai.engine = "engine"
    /\ ai.sql_query = <<"D", "R", "O", "P", " ", "T", "A", "B", "L", "E", " ", "c",
                        "a", "r", "s">> \o S_semicolon
    /\ ai.sql_results = "only_select"
    /\ ai.db_log = <<>>

\* C4: every statement the chat pipeline hands to the database is a SELECT
\* statement.
C4_OnlySelectReachesDatabase ==
    \A i \in DOMAIN ai.db_log : StartsAt(str_lower(ai.db_log[i]), S_select, 1)

\* C29: when the text of the SQL-generation call holds no SELECT at all,
\* no statement is extracted, nothing is handed to the database and the
\* request still ends with a response.
C29_NoSelectNoStatement ==
    (ai.pc = "done" /\ ~ai.select_in_output)
       => /\ ai.sql_query = <<>>
          /\ ai.db_log = <<>>
          /\ ai.response.kind # "none"

\* C30: sources is non-empty only if a statement was generated and handed to
\* the database in this request, and it is empty when none was generated,
\* when the guardrail rejected it, or when the answer is an apology.
C30_SourcesIsTheExecutedStatement ==
    ai.pc = "done" =>
        /\ ai.sources # <<>> =>
               (ai.sql_query # <<>> /\ ai.db_log = <<ai.sql_query>>)
        /\ (\/ ai.sql_query = <<>>
            \/ ai.sql_results = "only_select"
            \/ ai.response.kind \in {"empty_apology", "delay_apology",
                                     "issue_apology", "trouble_apology"})
               => ai.sources = <<>>

(***************************************************************************)
(* The chat proxy of the layered API (routes.chat_query).                  *)
(***************************************************************************)
MaxWords == 2

\* generate_ai_response(query, db, car_service): which canned text is picked.
generate_ai_response(query) ==
    LET has(pattern) == str_contains(str_lower(query), pattern)
    IN IF /\ has(<<"w", "h", "a", "t", " ", "i", "s">>)
          /\ \/ has(<<"w", "o", "r", "t", "h">>)
             \/ has(<<"v", "a", "l", "u", "e">>)
       THEN "valuation"
       ELSE IF has(<<"a", "v", "e", "r", "a", "g", "e", " ", "p", "r", "i", "c", "e">>)
       THEN "price_analysis"
       ELSE IF has(<<"h", "i", "g", "h", "e", "s", "t", " ", "r", "e", "s", "a", "l", "e",
                     " ", "v", "a", "l", "u", "e">>)
       THEN "resale_value_analysis"
       ELSE IF /\ has(<<"m", "i", "l", "e", "a", "g", "e">>)
               /\ has(<<"p", "r", "i", "c", "e">>)
       THEN "mileage_price_analysis"
       ELSE IF \/ has(<<"t", "r", "e", "n", "d">>)
               \/ has(<<"m", "a", "r", "k", "e", "t">>)
       THEN "market_trend_analysis"
       ELSE "default"

\* User queries: up to MaxWords of these words in a row.
Queries ==
    ChainsUpTo(
    {<<"W", "h", "a", "t", " ", "i", "s">>,
     <<" ", "w", "o", "r", "t", "h">>,
     <<"A", "v", "e", "r", "a", "g", "e", " ", "p", "r", "i", "c", "e">>,
     <<"h", "i", "g", "h", "e", "s", "t", " ", "r", "e", "s", "a", "l", "e", " ",
       "v", "a", "l", "u", "e">>,
     <<"m", "i", "l", "e", "a", "g", "e">>,
     <<" ", "p", "r", "i", "c", "e">>,
     <<"m", "a", "r", "k", "e", "t">>,
     <<" ", "v", "o", "l", "v", "o">>},
    MaxWords)

\* health_check() of the assistant (GET /health): `engine` is app.state.db_engine
\* ("unset" before startup, "none" when get_db_engine returned None), `db` what
\* SELECT 1 does on it and `ollama` what GET /api/tags does.  The handler
\* returns the dict, so the HTTP status is 200 whatever the dict reports.
health_check(engine, db, ollama) ==
    LET database == IF engine = "unset" THEN "not_initialized"
                    ELSE IF engine = "none" \/ db # "one" THEN "error"
                    ELSE "connected"
        server == IF ollama = "200" THEN "connected"
                  ELSE IF ollama = "error" THEN "unavailable"
                  ELSE "error"
    IN [status_code |-> 200,
        status |-> IF database = "connected" /\ server = "connected"
                   THEN "ok" ELSE "degraded",
        database |-> database, ollama |-> server]

\* What the assistant does with one HTTP call of the proxy: it answers with a
\* status and a body that parses as JSON or not, the call times out
\* (httpx.TimeoutException), or it fails otherwise (connection refused).
\* A probe that the assistant's handler answers carries the status the
\* handler reports; 503 is the answer of whatever stands in for an assistant
\* that does not serve.
HealthReplies ==
    {[kind |-> "response", status |-> h.status_code, parsable |-> TRUE,
      reported |-> h.status] :
        h \in {health_check(engine, db, ollama) :
                  engine \in {"engine", "none"},
                  db \in {"one", "other", "connect_error"},
                  ollama \in {"200", "500", "error"}}}
        \cup [kind : {"response"}, status : {503}, parsable : {TRUE},
              reported : {"none"}]
        \cup [kind : {"timeout", "error"}, status : {0}, parsable : {FALSE},
              reported : {"none"}]

fallback_response == [from |-> "fallback_response", text |-> "fallback_mode"]

\* An exception that leaves the handler.
unhandled_exception(user_query, calls) ==
    [status |-> 500, body |-> [from |-> "server_error", text |-> "internal"],
     calls |-> calls]

\* except Exception: return await generate_ai_response(user_query, db, car_service)
on_exception(user_query, calls) ==
    [status |-> 200,
     body |-> [from |-> "generate_ai_response", text |-> generate_ai_response(user_query)],
     calls |-> calls]

\* A forward that does not wait for the probe's verdict.
health_check_ignored(health) == FALSE

\* if health_response.status_code != 200
health_check_failed(health) == health.status # 200

\* chat_query(query): the status, the body and the calls made to the assistant
\* when the assistant treats the probe as health and the forward as answer.
chat_query(user_query, health, answer) ==
    IF user_query = <<>>
    THEN [status |-> 400, body |-> [from |-> "http_exception", text |-> "empty_query"],
          calls |-> <<>>]
    ELSE IF health.kind = "timeout"
    THEN [status |-> 200, body |-> fallback_response, calls |-> <<"GET /health">>]
    ELSE IF health.kind = "error"
    THEN on_exception(user_query, <<"GET /health">>)
    ELSE IF health_check_failed(health)
    THEN [status |-> 200, body |-> fallback_response, calls |-> <<"GET /health">>]
    ELSE IF answer.kind = "timeout"
    THEN [status |-> 200, body |-> fallback_response, calls |-> <<"GET /health",
                                                                  "POST /chat">>]
    ELSE IF answer.kind = "error"
    THEN on_exception(user_query, <<"GET /health", "POST /chat">>)
    ELSE IF answer.status # 200
    THEN [status |-> 200, body |-> fallback_response, calls |-> <<"GET /health",
                                                                  "POST /chat">>]
    ELSE IF ~answer.parsable
    THEN on_exception(user_query, <<"GET /health", "POST /chat">>)
    ELSE [status |-> 200, body |-> [from |-> "assistant", text |-> "json"],
          calls |-> <<"GET /health", "POST /chat">>]

\* POST /chat on the layered API.
ChatQuery(user_query, health, answer) ==
    /\ px.pc = "idle"
    /\ LET out == chat_query(user_query, health, answer)
       IN px' = [pc |-> "done", query |-> user_query,
                 health |-> IF Len(out.calls) >= 1 THEN health ELSE NoReply,
                 answer |-> IF Len(out.calls) >= 2 THEN answer ELSE NoReply,
                 calls |-> out.calls, status |-> out.status, body |-> out.body]
    /\ UNCHANGED <<cars, nextId, scr, del, api, ai, svc>>

\* The response is sent; the next request may come.
ChatQueryReturn ==
    /\ px.pc = "done"
    /\ px' = PxInit
    /\ UNCHANGED <<cars, nextId, scr, del, api, ai, svc>>

NextProxy ==
    \/ \E user_query \in Queries, health \in HealthReplies,
          answer \in [kind : {"response"}, status : {200, 500}, parsable : BOOLEAN]
                         \cup [kind : {"timeout", "error"}, status : {0},
                               parsable : {FALSE}] :
           ChatQuery(user_query, health, answer)
    \/ ChatQueryReturn

SpecProxy == Init /\ [][NextProxy]_vars

\* C7: a non-empty query is always answered with status 200, and with a
\* fallback body whenever the assistant's probe is not 200, a call times out or
\* fails, the forward is answered non-200 or its body does not parse; status
\* 400 is returned for the empty query and for nothing else.
C7_ChatAlwaysAnswers200 ==
    px.pc = "done" =>
        LET healthy == px.health.kind = "response" /\ px.health.status = 200
            answered == /\ px.answer.kind = "response"
                        /\ px.answer.status = 200
                        /\ px.answer.parsable
        IN /\ px.query # <<>> => px.status = 200
           /\ (px.query # <<>> /\ ~(healthy /\ answered)) =>
                  px.body.from \in {"fallback_response", "generate_ai_response"}
           /\ px.query = <<>> <=> px.status = 400

\* A non-empty query whose forward was answered 200 with a body that does not
\* parse ended as 200 with the locally generated fallback.
C7_Witness ==
    /\ px.pc = "done"
    /\ px.query # <<>>
    /\ px.answer.kind = "response"
    /\ px.answer.status = 200
    /\ ~px.answer.parsable
    /\ px.status = 200
    /\ px.body.from = "generate_ai_response"

\* C8: within a request POST /chat is sent only after GET /health of the same
\* request was answered 200; after a probe that is not 200, times out or fails
\* to connect, a fallback is returned and nothing is forwarded.
C8_ForwardOnlyAfterHealthyProbe ==
    px.pc = "done" =>
        /\ (\E i \in DOMAIN px.calls : px.calls[i] = "POST /chat") =>
               /\ px.calls = <<"GET /health", "POST /chat">>
               /\ px.health.kind = "response"
               /\ px.health.status = 200
        /\ (px.query # <<>> /\ ~(px.health.kind = "response" /\ px.health.status = 200)) =>
               /\ px.calls = <<"GET /health">>
               /\ px.status = 200
               /\ px.body.from \in {"fallback_response", "generate_ai_response"}

\* A request whose probe was answered 503 ended with the fallback and without
\* a forward.
C8_Witness ==
    /\ px.pc = "done"
    /\ px.query # <<>>
    /\ px.health.kind = "response"
    /\ px.health.status = 503
    /\ px.calls = <<"GET /health">>
    /\ px.body = fallback_response

\* C27: a query is forwarded to the assistant only when the assistant's
\* health check reported status ok, and a probe that reported degraded is
\* answered with the fallback response and without a forward.
C27_ForwardOnlyWhenAssistantReportsOk ==
    px.pc = "done" =>
        /\ (\E i \in DOMAIN px.calls : px.calls[i] = "POST /chat") =>
               px.health.reported = "ok"
        /\ px.health.reported = "degraded" =>
               (px.calls = <<"GET /health">> /\ px.body = fallback_response)

(***************************************************************************)
(* The listing of the layered API (routes.get_cars) and of the legacy API  *)
(* (main.get_cars_by_brand).                                               *)
(***************************************************************************)
MaxSkip == 2

MaxLimit == 2

\* limit = 9999 when a brand is given
BrandLimit == 9999

\* limit: int = 10 of the legacy search
LegacySearchLimit == 10

\* Requests that page through the listing, with or without a brand.
PageQueries ==
    {[NoFilters EXCEPT !.skip = s, !.limit = l, !.brand = b] :
        s \in 0..MaxSkip, l \in (1..MaxLimit) \cup {NoFilters.limit},
        b \in {NoneStr, "volvo"}}

\* Requests that filter the first page: by brand, model and year, or by
\* price and mileage ranges within a brand or across brands.
FilterQueries ==
    {[NoFilters EXCEPT !.brand = b, !.model = m, !.year = y] :
        b \in {NoneStr, "", "volvo", "saab"}, m \in {NoneStr, "", "xc90"},
        y \in {None, 0, 2020}}
    \cup
    {[NoFilters EXCEPT !.brand = b, !.min_price = p1, !.max_price = p2,
                       !.min_mileage = m1, !.max_mileage = m2] :
        b \in {NoneStr, "volvo"}, p1 \in {None, 80}, p2 \in {None, 80},
        m1 \in {None, 0}, m2 \in {None, 15}}

\* get_cars: the arguments handed to CarService.get_cars / get_filtered.
get_cars_call(q) ==
    [q EXCEPT !.limit = IF TruthyStr(q.brand) THEN BrandLimit ELSE q.limit]

\* The filters of a call, without its window.
FiltersOf(call) == [call EXCEPT !.skip = 0, !.limit = 0]

\* GET /cars on the layered API.  prev keeps the previous listing when it used
\* the same filters.
GetCars(q) ==
    /\ \E res \in get_filtered(cars, get_cars_call(q)) :
          api' = [op |-> "get_cars", req |-> q, call |-> get_cars_call(q),
                  status |-> "200", res |-> res,
                  prev |-> IF /\ api.op = "get_cars"
                              /\ FiltersOf(api.call) = FiltersOf(get_cars_call(q))
                           THEN [op |-> "get_cars", call |-> api.call, res |-> api.res]
                           ELSE [op |-> "none", call |-> NoFilters, res |-> <<>>],
                  updates |-> api.updates]
    /\ UNCHANGED <<cars, nextId, scr, del, px, ai, svc>>

\* A by-brand listing that answers 200 whatever it found.
get_cars_by_brand_always_200(cs, brand) ==
    [status |-> "200", res |-> {c \in cs : c.brand = brand}]

\* get_cars_by_brand(brand) of the legacy API
get_cars_by_brand(cs, brand) ==
    LET found == {c \in cs : c.brand = brand}
    IN [status |-> IF found = {} THEN "404" ELSE "200", res |-> found]

\* GET /api/v1/cars/{brand} on the legacy API.
LegacyGetCarsByBrand(brand) ==
    /\ api' = [op |-> "legacy_get_cars_by_brand", req |-> [brand |-> brand],
               status |-> get_cars_by_brand(cars, brand).status,
               res |-> get_cars_by_brand(cars, brand).res,
               updates |-> api.updates]
    /\ UNCHANGED <<cars, nextId, scr, del, px, ai, svc>>

MaxTermPieces == 2

\* The spelling of the stored brand and model values.
Chars ==
    [volvo |-> <<"v", "o", "l", "v", "o">>, audi |-> <<"a", "u", "d", "i">>,
     saab |-> <<"s", "a", "a", "b">>, xc90 |-> <<"x", "c", "9", "0">>,
     v70 |-> <<"v", "7", "0">>, a4 |-> <<"a", "4">>]

\* Search terms: up to MaxTermPieces of these pieces in a row.
SearchTerms ==
    ChainsUpTo({<<"V", "O", "L">>, <<"v", "o">>, <<"a", "4">>, <<"x">>, <<"%">>, <<"_">>},
               MaxTermPieces)

RECURSIVE like(_, _)
\* SQL: s LIKE pattern, where % stands for any run of characters and _ for
\* any one character.
like(s, pattern) ==
    IF pattern = <<>> THEN s = <<>>
    ELSE IF Head(pattern) = "%"
    THEN like(s, Tail(pattern)) \/ (s # <<>> /\ like(Tail(s), pattern))
    ELSE /\ s # <<>>
         /\ Head(pattern) = "_" \/ Head(pattern) = Head(s)
         /\ like(Tail(s), Tail(pattern))

\* Car.brand ILIKE '%term%' OR Car.model ILIKE '%term%' (layered), and
\* lower(brand) LIKE '%' || lower(query) || '%' OR ... (legacy).
search_filter(c, search_term) ==
    LET pattern == <<"%">> \o str_lower(search_term) \o <<"%">>
    IN \/ like(str_lower(Chars[c.brand]), pattern)
       \/ like(str_lower(Chars[c.model]), pattern)

\* CarService.search_cars / CarRepository.search with its default window.
SearchCars(search_term) ==
    /\ \E o \in OrderedBySaleDateDesc({c \in cars : search_filter(c, search_term)}) :
          api' = [op |-> "search_cars", req |-> [term |-> search_term],
                  status |-> "200", res |-> OffsetLimit(o, 0, NoFilters.limit),
                  updates |-> api.updates]
    /\ UNCHANGED <<cars, nextId, scr, del, px, ai, svc>>

\* GET /api/v1/search on the legacy API with its default limit: the rows come
\* in the database's order.
LegacySearchCars(query) ==
    /\ \E o \in [1..Cardinality({c \in cars : search_filter(c, query)})
                    -> {c \in cars : search_filter(c, query)}] :
          /\ \A i, j \in DOMAIN o : i # j => o[i] # o[j]
          /\ api' = [op |-> "legacy_search_cars", req |-> [term |-> query],
                     status |-> "200", res |-> OffsetLimit(o, 0, LegacySearchLimit),
                     updates |-> api.updates]
    /\ UNCHANGED <<cars, nextId, scr, del, px, ai, svc>>

NextList ==
    \/ \E q \in PageQueries \cup FilterQueries : GetCars(q)
    \/ \E brand \in Makes : LegacyGetCarsByBrand(brand)

SpecList == InitApi /\ [][NextList]_vars

NextSearch ==
    \/ \E term \in SearchTerms : SearchCars(term)
    \/ \E term \in SearchTerms : LegacySearchCars(term)

SpecSearch == InitApi /\ [][NextSearch]_vars

\* C11: GET /cars with a brand filter returns, whatever skip and limit are,
\* every stored record of that brand that matches the other filters.
C11_BrandListingIsComplete ==
    (api.op = "get_cars" /\ api.req.brand \notin {NoneStr, ""}) =>
        \A c \in cars :
            Matches(c, [api.req EXCEPT !.skip = 0]) =>
                \E i \in DOMAIN api.res : api.res[i] = c

\* C12: get_filtered returns exactly the records that satisfy every supplied
\* filter, 0 and the empty string included: no returned record violates a
\* supplied filter, and on a first page that is not full no satisfying
\* record is missing.
C12_EverySuppliedFilterApplies ==
    api.op = "get_cars" =>
        LET q == api.call
            Satisfies(c) ==
                /\ q.brand # NoneStr => c.brand = q.brand
                /\ q.model # NoneStr => c.model = q.model
                /\ q.year # None => c.year = q.year
                /\ q.min_price # None => (c.price # None /\ c.price >= q.min_price)
                /\ q.max_price # None => (c.price # None /\ c.price <= q.max_price)
                /\ q.min_mileage # None => c.mileage >= q.min_mileage
                /\ q.max_mileage # None => c.mileage <= q.max_mileage
        IN /\ \A i \in DOMAIN api.res : Satisfies(api.res[i])
           /\ (q.skip = 0 /\ Len(api.res) < q.limit) =>
                  \A c \in cars : Satisfies(c) => \E i \in DOMAIN api.res : api.res[i] = c

\* C13: a listing with M matching records returns min(limit, max(0, M - skip))
\* of them, and two listings of the same unchanged data with the same filters
\* whose windows do not overlap have no record in common.
C13_PagesAreSizedAndDisjoint ==
    api.op = "get_cars" =>
        LET q == api.call
            M == Cardinality({c \in cars : Matches(c, q)})
            rest == IF M > q.skip THEN M - q.skip ELSE 0
        IN /\ Len(api.res) = (IF q.limit < rest THEN q.limit ELSE rest)
           /\ (/\ api.prev.op = "get_cars"
               /\ \/ api.prev.call.skip + api.prev.call.limit <= q.skip
                  \/ q.skip + q.limit <= api.prev.call.skip) =>
                  \A i \in DOMAIN api.res, j \in DOMAIN api.prev.res :
                      api.res[i] # api.prev.res[j]

\* C14: for a brand without a stored record the legacy endpoint answers 404
\* and the layered listing answers 200 with an empty list.
C14_UnknownBrand404Versus200 ==
    /\ (api.op = "legacy_get_cars_by_brand" /\ ~\E c \in cars : c.brand = api.req.brand)
           => api.status = "404"
    /\ (api.op = "legacy_get_cars_by_brand" /\ \E c \in cars : c.brand = api.req.brand)
           => (api.status = "200" /\ api.res = {c \in cars : c.brand = api.req.brand})
    /\ (api.op = "get_cars" /\ api.req.brand \notin {NoneStr, ""}
            /\ ~\E c \in cars : c.brand = api.req.brand)
           => (api.status = "200" /\ api.res = <<>>)

\* A layered listing for brand saab, which has no record although the table
\* is not empty, was answered 200 with the empty list.
C14_Witness ==
    /\ api.op = "get_cars"
    /\ api.req.brand = "saab"
    /\ cars # {}
    /\ api.status = "200"
    /\ api.res = <<>>

\* C15: search returns a record if and only if the term occurs, ignoring
\* letter case, as a substring of the record's brand or of its model.
C15_SearchIsSubstringMatch ==
    api.op \in {"search_cars", "legacy_search_cars"} =>
        \A c \in cars :
            (\E i \in DOMAIN api.res : api.res[i] = c)
                <=> \/ str_contains(str_lower(Chars[c.brand]), str_lower(api.req.term))
                    \/ str_contains(str_lower(Chars[c.model]), str_lower(api.req.term))

(***************************************************************************)
(* KVDScraper.parse_auction_details: what is read from a listing's page.   *)
(***************************************************************************)
\* Links handled in one run.
MaxLinks == 1

\* Pieces in a row that make an external id or a page text.
MaxPieces == 2

\* str.split(sep)
RECURSIVE str_split(_, _)
str_split(s, sep) ==
    LET at == str_find(s, <<sep>>, 1)
    IN IF at = 0 THEN <<s>>
       ELSE <<SubSeq(s, 1, at - 1)>> \o str_split(SubSeq(s, at + 1, Len(s)), sep)

\* str.replace(old, "")
RECURSIVE str_remove(_, _)
str_remove(s, old) ==
    LET at == str_find(s, old, 1)
    IN IF at = 0 THEN s
       ELSE SubSeq(s, 1, at - 1)
                \o str_remove(SubSeq(s, at + Len(old), Len(s)), old)

DigitValue ==
    LET d == <<"0", "1", "2", "3", "4", "5", "6", "7", "8", "9">>
    IN [c \in {d[i] : i \in 1..10} |-> (CHOOSE i \in 1..10 : d[i] = c) - 1]

\* int(s): surrounding whitespace is dropped, then every character has to be
\* a digit; raised is TRUE for a ValueError.
int(s) ==
    LET t == str_strip(s)
        RECURSIVE dec(_)
        dec(u) == IF u = <<>> THEN 0
                  ELSE 10 * dec(SubSeq(u, 1, Len(u) - 1)) + DigitValue[u[Len(u)]]
    IN IF t = <<>> \/ \E i \in 1..Len(t) : t[i] \notin DOMAIN DigitValue
       THEN [raised |-> TRUE, value |-> 0]
       ELSE [raised |-> FALSE, value |-> dec(t)]

get_brand_model_last(kvd_id) ==
    LET parts == str_split(kvd_id, "-")
    IN [brand |-> parts[1], model |-> parts[Len(parts)]]

\* parts = kvd_id.split('-'); parts[0], parts[1] if len(parts) > 1 else 'unknown'
get_brand_model(kvd_id) ==
    LET parts == str_split(kvd_id, "-")
    IN [brand |-> parts[1],
        model |-> IF Len(parts) > 1 THEN parts[2]
                  ELSE <<"u", "n", "k", "n", "o", "w", "n">>]

skip_prefixes ==
    { <<"v", "i", "n", "t", "e", "r", "h", "j", "u", "l">>,
      <<"l", "o", "s", "a", "-", "h", "j", "u", "l">>,
      <<"n", "o", "k", "i", "a", "n", "-",
        "h", "a", "k", "k", "a", "p", "e", "l", "i", "i", "t", "t", "a">> }

should_skip_auction_exact_case(kvd_id) ==
    \E prefix \in skip_prefixes : StartsAt(kvd_id, prefix, 1)

\* any(kvd_id.lower().startswith(prefix) for prefix in skip_prefixes)
should_skip_auction(kvd_id) ==
    \E prefix \in skip_prefixes : StartsAt(str_lower(kvd_id), prefix, 1)

is_sold_either(page_text) ==
    \/ str_contains(page_text, <<"S", "å", "l", "d">>)
    \/ str_contains(page_text, <<"R", "e", "s", "e", "r", "v", "a", "t", "i", "o", "n", "s",
                                  "p", "r", "i", "s", " ", "u", "p", "p", "n", "å", "t", "t">>)

\* "Såld" in page_text and "Reservationspris uppnått" in page_text, on the
\* text of the page (soup.get_text()).
is_sold(page_text) ==
    /\ str_contains(page_text, <<"S", "å", "l", "d">>)
    /\ str_contains(page_text, <<"R", "e", "s", "e", "r", "v", "a", "t", "i", "o", "n", "s",
                                  "p", "r", "i", "s", " ", "u", "p", "p", "n", "å", "t", "t">>)

\* driver.find_element(By.XPATH, "//span[contains(text(), n1) or ...]").text:
\* the text of the first span that holds one of the needles, as a sequence of
\* one text; the empty sequence for NoSuchElementException.
find_element(spans, needles) ==
    LET hits == {i \in 1..Len(spans) : \E n \in needles : str_contains(spans[i], n)}
    IN IF hits = {} THEN <<>> ELSE <<spans[MinOf(hits)]>>

mileage_unconverted(value, unit) == value

\* mil is kept, km is converted to mil.
mileage_in_mil(value, unit) == IF unit = "mil" THEN value ELSE value \div 10

\* re.search(r'(\d[\d\s]*)\s*(mil|km)', mileage_text.lower()): the leftmost
\* digit whose run of digits and whitespace is followed by a unit; group 1 is
\* that run.  Then int(group(1).replace(" ", "")); every exception, the
\* missing element included, leaves the mileage None.
extract_mileage(spans) ==
    LET element == find_element(spans, {<<" ", "m", "i", "l">>, <<" ", "k", "m">>})
        text == str_lower(element[1])
        run_end(i) ==
            MinOf({j \in i..(Len(text) + 1) :
                      \/ j = Len(text) + 1
                      \/ text[j] \notin (DOMAIN DigitValue) \cup Whitespace})
        unit_at(j) == IF StartsAt(text, <<"m", "i", "l">>, j) THEN "mil"
                      ELSE IF StartsAt(text, <<"k", "m">>, j) THEN "km" ELSE ""
        starts == {i \in 1..Len(text) :
                      text[i] \in DOMAIN DigitValue /\ unit_at(run_end(i)) # ""}
        first == MinOf(starts)
        mileage_value ==
            int(str_remove(SubSeq(text, first, run_end(first) - 1), <<" ">>))
    IN IF element = <<>> \/ starts = {} \/ mileage_value.raised THEN None
       ELSE mileage_in_mil(mileage_value.value, unit_at(run_end(first)))

\* External ids: up to MaxPieces of these pieces in a row.
KvdIds ==
    ChainsUpTo({ <<"v", "i", "n", "t", "e", "r", "h", "j", "u", "l">>,
                 <<"L", "o", "s", "a", "-">>,
                 <<"h", "j", "u", "l">>,
                 <<"n", "o", "k", "i", "a", "n", "-", "h", "a", "k", "k", "a", "p", "e",
                   "l", "i", "i", "t", "t", "a">>,
                 <<"a", "u", "d", "i", "-", "a", "4">>,
                 <<"-", "a", "v", "a", "n", "t">> }, MaxPieces)

\* The href of a row of the closed-auctions table and its date.
LinkOf(kvd_id) ==
    [url |-> <<"h", "t", "t", "p", "s", ":", "/", "/", "k", "v", "d", ".", "s", "e", "/">>
                 \o kvd_id,
     date |-> 10]

\* What a detail page writes as the odometer reading: the value in groups of
\* three digits when grouped, the unit after `gap`.
mileage_span(reading) ==
    LET d == <<"0", "1", "2", "3", "4", "5", "6", "7", "8", "9">>
        RECURSIVE digits(_)
        digits(v) == IF v < 10 THEN <<d[v + 1]>>
                     ELSE digits(v \div 10) \o <<d[(v % 10) + 1]>>
        RECURSIVE groups(_)
        groups(t) == IF Len(t) <= 3 \/ ~reading.grouped THEN t
                     ELSE groups(SubSeq(t, 1, Len(t) - 3)) \o <<" ">>
                              \o SubSeq(t, Len(t) - 2, Len(t))
    IN groups(digits(reading.value)) \o reading.gap \o reading.unit

NoReading == [value |-> 0, grouped |-> FALSE, gap |-> <<>>, unit |-> <<>>]

\* A sold listing's page with a price, a reading and a year.
SoldPage(reading) ==
    [text |-> <<"S", "å", "l", "d", " ">>
                  \o <<"R", "e", "s", "e", "r", "v", "a", "t", "i", "o", "n", "s", "p",
                       "r", "i", "s", " ", "u", "p", "p", "n", "å", "t", "t">>,
     spans |-> <<<<"1", "0", "0", " ", "0", "0", "0", " ", "k", "r">>, mileage_span(reading)>>,
     year |-> <<<<"2", "0", "2", "0">>>>, shown |-> reading]

\* Detail pages: texts of up to MaxPieces phrases without the spans, and sold
\* pages with each reading or with none.
Pages ==
    {[text |-> t, spans |-> <<>>, year |-> <<>>, shown |-> NoReading] :
        t \in ChainsUpTo({ <<"S", "å", "l", "d", " ">>,
                           <<"R", "e", "s", "e", "r", "v", "a", "t", "i", "o", "n", "s",
                             "p", "r", "i", "s", " ", "u", "p", "p", "n", "å", "t", "t">>,
                           <<"R", "e", "s", "e", "r", "v", "a", "t", "i", "o", "n", "s",
                             "p", "r", "i", "s">>,
                           <<"s", "å", "l", "d", " ">> }, MaxPieces)}
    \cup {SoldPage([value |-> v, grouped |-> g, gap |-> s, unit |-> u]) :
             v \in {7, 150, 15000}, g \in BOOLEAN,
             s \in {<<>>, <<" ">>},
             u \in {<<"m", "i", "l">>, <<"k", "m">>, <<"K", "M">>}}
    \cup {[SoldPage(NoReading) EXCEPT !.spans = sp] :
             sp \in {<<>>, <<<<"A", "u", "t", "o", "m", "a", "t">>>>}}

\* What parse_auction_details reads from each link: the external id
\* (auction_url.split('/')[-1]), whether it is skipped, its brand and model.
ReadLink ==
    [link \in {LinkOf(kvd_id) : kvd_id \in KvdIds} |->
        LET parts == str_split(link.url, "/")
        IN [kvd_id |-> parts[Len(parts)],
            skip |-> should_skip_auction(parts[Len(parts)]),
            names |-> get_brand_model(parts[Len(parts)])]]

\* What it reads from each page: is_sold of the text and the extracted values.
ReadPage ==
    LET \* int(price_text.replace(" kr", "").replace(" ", "")), None on any
        \* exception.
        extract_price(spans) ==
            LET element == find_element(spans, {<<" ", "k", "r">>})
                price == int(str_remove(str_remove(element[1], <<" ", "k", "r">>),
                                        <<" ">>))
            IN IF element = <<>> \/ price.raised THEN None ELSE price.value
        \* int(year_element.text.strip()), None on any exception; `year` is the
        \* text of the summary's first label, or empty without that element.
        extract_year(year) ==
            IF year = <<>> \/ int(str_strip(year[1])).raised THEN None
            ELSE int(str_strip(year[1])).value
    IN [page \in Pages |->
           [sold |-> is_sold(page.text),
            mileage |-> extract_mileage(page.spans),
            price |-> extract_price(page.spans),
            year |-> extract_year(page.year)]]

\* The body of parse_auction_details for one link, given the page the driver
\* shows for its url: whether the page was fetched, whether details were
\* returned, and the details dict.
parse_auction_details(link, page, processed_ids) ==
    LET id == ReadLink[link]
        seen == ReadPage[page]
        fetched == ~id.skip /\ id.kvd_id \notin processed_ids
    IN [fetched |-> fetched,
        returned |-> fetched /\ seen.sold,
        details |-> [kvd_id |-> id.kvd_id, url |-> link.url,
                     sale_date |-> link.date,
                     brand |-> id.names.brand, model |-> id.names.model,
                     mileage |-> seen.mileage, price |-> seen.price,
                     year |-> seen.year]]

\* One pass of the loop over auction_links in run: a link whose id is not in
\* processed_ids goes to parse_auction_details, and details that come back are
\* handed to save_auction; the id joins processed_ids once save_auction is
\* back, which is before the next link is looked at.
ParseAuctionDetails(link, page) ==
    /\ scr["layered"].pc = "idle"
    /\ scr["layered"].links < MaxLinks
    /\ LET parsed == parse_auction_details(link, page, scr["layered"].processed_ids)
       IN scr' = [scr EXCEPT !["layered"] =
                    [@ EXCEPT !.link = link, !.page = page, !.links = @ + 1,
                        !.fetched = parsed.fetched,
                        !.loads = IF parsed.fetched THEN @ \cup {link.url} ELSE @,
                        !.pc = IF parsed.returned THEN "called" ELSE "idle",
                        !.details = IF parsed.returned THEN parsed.details
                                    ELSE NoDetails,
                        !.outcome = IF parsed.returned THEN "none"
                                    ELSE "no_details",
                        !.processed_ids =
                            IF parsed.returned THEN @ \cup {parsed.details.kvd_id}
                            ELSE @]]
    /\ UNCHANGED <<cars, nextId, del, api, px, ai, svc>>

NextScrape ==
    \/ \E kvd_id \in KvdIds :
          ParseAuctionDetails(LinkOf(kvd_id),
                              [SoldPage(NoReading) EXCEPT !.spans = <<>>])
    \/ \E page \in Pages :
          ParseAuctionDetails(LinkOf(<<"a", "u", "d", "i", "-", "a", "4">>), page)
    \/ SaveCheck("layered")
    \/ SaveInsert("layered")

SpecScrape == Init /\ [][NextScrape]_vars

(***************************************************************************)
(* Claims about what the scraper reads from a listing, under SpecScrape.   *)
(***************************************************************************)
\* C16: a fetched listing is taken as sold, and its details are returned, if
\* and only if the page text holds both "Såld" and "Reservationspris uppnått";
\* with one phrase or none no details are returned and nothing is stored.
C16_SoldOnlyWithBothPhrases ==
    LET s == scr["layered"]
        both == /\ \E i \in 1..Len(s.page.text) :
                      StartsAt(s.page.text, <<"S", "å", "l", "d">>, i)
                /\ \E i \in 1..Len(s.page.text) :
                      StartsAt(s.page.text,
                               <<"R", "e", "s", "e", "r", "v", "a", "t", "i", "o", "n",
                                 "s", "p", "r", "i", "s">>
                                   \o <<" ", "u", "p", "p", "n", "å", "t", "t">>, i)
    IN (s.links > 0 /\ s.fetched) =>
          /\ both <=> s.outcome # "no_details"
          /\ ~both => /\ s.details = NoDetails
                       /\ s.pc = "idle"
                       /\ \A c \in cars : c.url # s.link.url

\* A page with "Såld" and "Reservationspris" but not "uppnått" was fetched
\* and gave no details.
C16_Witness ==
    /\ scr["layered"].fetched
    /\ scr["layered"].page.text = <<"S", "å", "l", "d", " ">>
                                      \o <<"R", "e", "s", "e", "r", "v", "a", "t", "i",
                                           "o", "n", "s", "p", "r", "i", "s">>
    /\ scr["layered"].outcome = "no_details"

\* C17: an external id is skipped if and only if, letter case ignored, it
\* starts with vinterhjul, losa-hjul or nokian-hakkapeliitta; the detail page
\* of a skipped id is never fetched and no row is inserted for it.
C17_SkippedIdsAreNeverFetched ==
    LET s == scr["layered"]
        kvd_id == SubSeq(s.link.url, Len(LinkOf(<<>>).url) + 1, Len(s.link.url))
        prefixed == \E p \in skip_prefixes :
                        /\ Len(p) <= Len(kvd_id)
                        /\ \A k \in 1..Len(p) : lower_char(kvd_id[k]) = p[k]
    IN s.links > 0 =>
          /\ prefixed <=> s.link.url \notin s.loads
          /\ prefixed => /\ s.outcome = "no_details"
                          /\ \A c \in cars : c.kvd_id # kvd_id

\* The id Losa-hjul was handled: its page was not fetched and nothing is stored.
C17_Witness ==
    /\ scr["layered"].links > 0
    /\ scr["layered"].link = LinkOf(<<"L", "o", "s", "a", "-", "h", "j", "u", "l">>)
    /\ scr["layered"].loads = {}
    /\ cars = {}

C19_MileageInMil ==
    LET s == scr["layered"]
        r == s.page.shown
        detected == r.gap = <<" ">> /\ r.unit \in {<<"m", "i", "l">>, <<"k", "m">>}
        expected == IF ~detected THEN None
                    ELSE IF r.unit = <<"k", "m">> THEN r.value \div 10
                    ELSE r.value
    IN (s.links > 0 /\ s.outcome # "no_details") =>
          /\ s.details.mileage = expected
          /\ s.outcome = "inserted" =>
                \E c \in cars :
                    /\ c.kvd_id = s.details.kvd_id
                    /\ c.mileage = IF expected = None THEN 0 ELSE expected

\* A page showing "15 000 km" was stored with mileage 1500.
C19_Witness ==
    /\ scr["layered"].outcome = "inserted"
    /\ Len(scr["layered"].page.spans) = 2
    /\ scr["layered"].page.spans[2] = <<"1", "5", " ", "0", "0", "0", " ", "k", "m">>
    /\ \E c \in cars : c.mileage = 1500

(***************************************************************************)
(* The legacy API's statistics endpoint (api/main.py).                     *)
(***************************************************************************)
\* Sales of one make and model: priced and unpriced ones, two on one day, and
\* one outside the shorter period.
TrendRows ==
    {[id |-> i, kvd_id |-> "volvo-xc90", brand |-> "volvo", model |-> "xc90",
      year |-> 2020, price |-> <<100, None, 60, None, 80>>[i], mileage |-> 15,
      sale_date |-> Today - <<1, 2, 30, 3, 1>>[i],
      url |-> "https://www.kvd.se/auktion/volvo-xc90"] : i \in 1..5}

\* calculate_price_trend(cars): 0.0 for fewer than two cars; otherwise the
\* slope of stats.linregress(dates, prices), as a reduced fraction, where
\* dates are the days since the first car's sale (the slope is the same for
\* any first car).  linregress raises on a price that is None, and raises or
\* gives nan, which the JSON response cannot carry, when all dates are equal.
calculate_price_trend(found) ==
    LET base == MinOf({c.sale_date : c \in found})
        pts == {[id |-> c.id, x |-> c.sale_date - base, y |-> c.price,
                 xy |-> (c.sale_date - base) * c.price,
                 xx |-> (c.sale_date - base) * (c.sale_date - base)] : c \in found}
        n == Cardinality(found)
        num == n * SumField(pts, "xy") - SumField(pts, "x") * SumField(pts, "y")
        den == n * SumField(pts, "xx") - SumField(pts, "x") * SumField(pts, "x")
        g == Gcd(IF num < 0 THEN 0 - num ELSE num, den)
    IN IF n < 2 THEN [raised |-> FALSE, value |-> <<0, 1>>]
       ELSE IF (\E c \in found : c.price = None) \/ den = 0
       THEN [raised |-> TRUE, value |-> <<0, 1>>]
       ELSE [raised |-> FALSE, value |-> <<num \div g, den \div g>>]

\* GET /api/v1/statistics/{brand}/{model}?period=...
LegacyGetModelStatistics(brand, model, period) ==
    LET found == {c \in cars : /\ c.brand = brand
                               /\ c.model = model
                               /\ c.sale_date >= Today - period}
        price_trend == calculate_price_trend(found)
    IN /\ api' = [op |-> "legacy_get_model_statistics",
                  req |-> [brand |-> brand, model |-> model, period |-> period],
                  status |-> IF found = {} THEN "404"
                             ELSE IF price_trend.raised THEN "500" ELSE "200",
                  res |-> IF found = {} \/ price_trend.raised THEN <<>>
                          ELSE [Aggregate(found) EXCEPT
                                   !.price_trend = price_trend.value],
                  updates |-> api.updates]
       /\ UNCHANGED <<cars, nextId, scr, del, px, ai, svc>>

InitTrend ==
    /\ cars \in SUBSET TrendRows
    /\ nextId = 6
    /\ scr = ScrInit
    /\ del = DelInit
    /\ api = ApiIdle
    /\ px = PxInit
    /\ ai = AiInit
    /\ svc = SvcInit

NextTrend ==
    \E brand \in {"volvo", "saab"}, period \in {0, 10, PeriodDefault} :
        LegacyGetModelStatistics(brand, "xc90", period)

SpecTrend == InitTrend /\ [][NextTrend]_vars

\* C20: a legacy statistics request whose matched records include fewer than
\* two with a price is answered 200 with price_trend 0.0.
C20_TrendZeroBelowTwoPricedRecords ==
    LET found == {c \in cars : /\ c.brand = api.req.brand
                               /\ c.model = api.req.model
                               /\ c.sale_date >= Today - api.req.period}
    IN (/\ api.op = "legacy_get_model_statistics"
        /\ found # {}
        /\ Cardinality({c \in found : c.price # None}) < 2)
          => (api.status = "200" /\ api.res.price_trend = <<0, 1>>)

(***************************************************************************)
(* The scraper service: scraper_service.run_scheduled with the runs of     *)
(* KVDScraper it starts, and the earlier run_scraper_service.              *)
(***************************************************************************)
MaxEvents == 4

\* wait_time of the hourly modes, 24 * 60 * 60 of daily, the sleep after an
\* error, and the sleep after an error in run_scraper_service.
HourlyWait == 3600

SecondsPerDay == 86400

ErrorWait == 300

LegacyErrorWait == 60

runs_in_loop_always(schedule_type) == TRUE

\* if schedule_type != "hourly_immediate": the loop body starts a run.
runs_in_loop(schedule_type) == schedule_type # "hourly_immediate"

\* The loop body after the run: the sleep the mode asks for (`now` is the
\* time of day in seconds, used by midnight), the break of "immediately" and
\* the reset of hourly_immediate to hourly.  A schedule_type that no branch
\* names sleeps nowhere.
after_run(s, now) ==
    LET wait_time ==
            IF s.schedule_type = "midnight" THEN SecondsPerDay - now
            ELSE IF s.schedule_type \in {"hourly", "hourly_immediate"} THEN HourlyWait
            ELSE IF s.schedule_type = "daily" THEN SecondsPerDay
            ELSE 0
    IN [s EXCEPT !.events = IF wait_time > 0
                            THEN Append(@, [kind |-> "sleep", seconds |-> wait_time,
                                            raised |-> FALSE])
                            ELSE @,
                 !.pc = IF s.schedule_type = "immediately" THEN "exited" ELSE "loop",
                 !.schedule_type = IF @ = "hourly_immediate" THEN "hourly" ELSE @]

\* __main__: "once" goes to run_once, "immediate" and no argument to
\* run_scheduled("hourly_immediate"), any other argument to run_scheduled as
\* it is written.
main(argv) ==
    /\ svc.pc = "off"
    /\ LET schedule_type == IF argv = <<>> \/ argv[1] = "immediate"
                            THEN "hourly_immediate"
                            ELSE argv[1]
       IN svc' = [svc EXCEPT !.pc = IF schedule_type = "once" THEN "once"
                                    ELSE IF schedule_type = "hourly_immediate"
                                    THEN "startup"
                                    ELSE "loop",
                             !.schedule_type = schedule_type,
                             !.given = schedule_type]
    /\ UNCHANGED <<cars, nextId, scr, del, api, px, ai>>

\* scraper = KVDScraper(); await scraper.run() is entered: at startup (lines
\* 24-25), in the loop (35-36) or in run_once (84-85).  The constructor loads
\* processed_ids from the csv file and starts the browser, which can fail.
StartScrape(constructed) ==
    /\ \/ svc.pc \in {"startup", "once"}
       \/ svc.pc = "loop" /\ runs_in_loop(svc.schedule_type)
    /\ svc.scraper.pc = "none"
    /\ Len(svc.events) < MaxEvents
    /\ svc' = [svc EXCEPT
                 !.events = Append(@, [kind |-> "run", seconds |-> 0, raised |-> FALSE]),
                 !.scraper = IF constructed
                             THEN [SvcInit.scraper EXCEPT !.pc = "open",
                                                          !.processed_ids = svc.csv]
                             ELSE [SvcInit.scraper EXCEPT !.pc = "unconstructed"]]
    /\ UNCHANGED <<cars, nextId, scr, del, api, px, ai>>

\* run, up to the page loop: the closed-auctions page is opened and the
\* external ids of the table join processed_ids; an exception of the driver
\* or of the database is caught by run's except clause.
RunOpen(outcome) ==
    /\ svc.scraper.pc = "open"
    /\ svc' = IF outcome = "ok"
              THEN [svc EXCEPT !.scraper.pc = "page",
                               !.scraper.processed_ids = @ \cup {c.kvd_id : c \in cars}]
              ELSE [svc EXCEPT !.scraper.pc = "finally", !.scraper.caught = TRUE]
    /\ UNCHANGED <<cars, nextId, scr, del, api, px, ai>>

\* auction_links = self.get_auction_links(); if not auction_links: break
RunGetLinks(found) ==
    /\ svc.scraper.pc = "page"
    /\ svc' = [svc EXCEPT !.scraper.pc = IF found THEN "rows" ELSE "finally"]
    /\ UNCHANGED <<cars, nextId, scr, del, api, px, ai>>

\* One pass of `for link_data in auction_links` on a row whose listing is
\* `listing`: the row has no href (split raises), or its detail page shows the
\* listing as sold, as unsold, or fails to parse.  parse_auction_details is
\* called for an id outside processed_ids and fetches the page; only details
\* that are returned are saved and join processed_ids.
RunRow(listing, page) ==
    /\ svc.scraper.pc = "rows"
    /\ LET kvd_id == listing.kvd_id
           fetched == page # "no_href" /\ kvd_id \notin svc.scraper.processed_ids
           details == fetched /\ page = "sold"
           values == save_values("layered", listing)
           inserted == /\ details
                       /\ ~check_if_car_exists(cars, kvd_id)
                       /\ InsertOutcome(cars, values) = "ok"
       IN /\ cars' = IF inserted THEN cars \cup {NewRow(nextId, values)} ELSE cars
          /\ nextId' = IF inserted THEN nextId + 1 ELSE nextId
          /\ svc' = [svc EXCEPT
                       !.scraper.pc = IF page = "no_href" THEN "finally" ELSE @,
                       !.scraper.caught = @ \/ page = "no_href",
                       !.scraper.processed_ids =
                           IF details THEN @ \cup {kvd_id} ELSE @,
                       \* auctions_data.append(details); save_to_csv()
                       !.csv = IF inserted THEN @ \cup {kvd_id} ELSE @,
                       !.unsold = IF fetched /\ page = "unsold"
                                  THEN @ \cup {kvd_id}
                                  ELSE @,
                       !.refetched = IF fetched /\ kvd_id \in svc.unsold
                                     THEN @ \cup {kvd_id}
                                     ELSE @]
    /\ UNCHANGED <<scr, del, api, px, ai>>

\* The click on the next-page control, or the break when there is none.
RunNextPage(has_next) ==
    /\ svc.scraper.pc = "rows"
    /\ svc' = [svc EXCEPT !.scraper.pc = IF has_next THEN "page" ELSE "finally"]
    /\ UNCHANGED <<cars, nextId, scr, del, api, px, ai>>

driver_quit_unless_caught(scraper) ==
    [scraper EXCEPT !.quits = IF scraper.caught THEN @ ELSE @ + 1]

\* self.driver.quit()
driver_quit(scraper) == [scraper EXCEPT !.quits = @ + 1]

\* finally: self.driver.quit(), then run returns; an exception of quit itself
\* is outside the try and leaves run.
RunQuit(quit_raises) ==
    /\ svc.scraper.pc = "finally"
    /\ svc' = [svc EXCEPT !.scraper = [driver_quit(@) EXCEPT
                                          !.pc = IF quit_raises THEN "raised"
                                                 ELSE "returned",
                                          !.quit_failed = quit_raises]]
    /\ UNCHANGED <<cars, nextId, scr, del, api, px, ai>>

\* The caller after the run, or after a constructor that raised.  At startup
\* an exception is logged and the loop is entered; in the loop it is logged
\* and followed by the sleep of ErrorWait, and a run that returned is
\* followed by the rest of the loop body; run_once logs and raises again.
ScrapeDone(now) ==
    /\ svc.scraper.pc \in {"returned", "raised", "unconstructed"}
    /\ LET raised == svc.scraper.pc # "returned"
           back == [svc EXCEPT !.scraper = SvcInit.scraper,
                               !.events[Len(svc.events)].raised = raised]
       IN svc' = IF svc.pc = "startup" THEN [back EXCEPT !.pc = "loop"]
                 ELSE IF svc.pc = "once" THEN [back EXCEPT !.pc = "exited"]
                 ELSE IF raised
                 THEN [back EXCEPT !.events = Append(@, [kind |-> "sleep",
                                                         seconds |-> ErrorWait,
                                                         raised |-> FALSE])]
                 ELSE after_run(back, now)
    /\ UNCHANGED <<cars, nextId, scr, del, api, px, ai>>

\* The loop body of a pass that starts no run (hourly_immediate).
LoopWait(now) ==
    /\ svc.pc = "loop"
    /\ svc.scraper.pc = "none"
    /\ ~runs_in_loop(svc.schedule_type)
    /\ svc' = after_run(svc, now)
    /\ UNCHANGED <<cars, nextId, scr, del, api, px, ai>>

\* One pass of the loop of run_scraper_service: the run, then the sleep of an
\* hour, or of LegacyErrorWait when the run raised.
RunScraperService(raised) ==
    /\ svc.pc \in {"off", "legacy"}
    /\ Len(svc.events) < MaxEvents
    /\ svc' = [svc EXCEPT
                 !.pc = "legacy",
                 !.given = "run_scraper_service",
                 !.events = @ \o <<[kind |-> "run", seconds |-> 0, raised |-> raised],
                                   [kind |-> "sleep",
                                    seconds |-> IF raised THEN LegacyErrorWait
                                                ELSE HourlyWait,
                                    raised |-> FALSE]>>]
    /\ UNCHANGED <<cars, nextId, scr, del, api, px, ai>>

NextService ==
    \/ \E argv \in {<<>>, <<"once">>, <<"immediate">>, <<"hourly">>, <<"daily">>,
                    <<"midnight">>, <<"immediately">>, <<"hourly_immediate">>,
                    <<"weekly">>} : main(argv)
    \/ \E constructed \in BOOLEAN : StartScrape(constructed)
    \/ \E outcome \in {"ok", "navigation_error", "database_error"} : RunOpen(outcome)
    \/ \E found \in BOOLEAN : RunGetLinks(found)
    \/ \E listing \in Listings, page \in {"sold", "unsold", "error", "no_href"} :
           RunRow(listing, page)
    \/ \E has_next \in BOOLEAN : RunNextPage(has_next)
    \/ \E quit_raises \in BOOLEAN : RunQuit(quit_raises)
    \/ \E now \in {0, 43200, 86399} : ScrapeDone(now)
    \/ \E now \in {0, 43200, 86399} : LoopWait(now)
    \/ \E raised \in BOOLEAN : RunScraperService(raised)

SpecService == Init /\ [][NextService]_vars

\* C21: started as hourly_immediate, and as long as no run has raised, the
\* service does run, sleep 3600, run, sleep 3600, ...: the first event is the
\* startup run, every run is followed by the sleep of an hour and every sleep
\* by exactly one run.
C21_HourlyImmediateAlternates ==
    (/\ svc.given = "hourly_immediate"
     /\ \A i \in 1..Len(svc.events) : ~svc.events[i].raised)
       => \A i \in 1..Len(svc.events) :
             svc.events[i] = IF i % 2 = 1
                             THEN [kind |-> "run", seconds |-> 0, raised |-> FALSE]
                             ELSE [kind |-> "sleep", seconds |-> HourlyWait,
                                   raised |-> FALSE]

C21_Witness ==
    /\ svc.given = "hourly_immediate"
    /\ svc.schedule_type = "hourly"
    /\ Len(svc.events) >= 4
    /\ \A i \in 1..Len(svc.events) : ~svc.events[i].raised
    /\ svc.events[3].kind = "run"
    /\ svc.events[4].kind = "sleep"

\* C22: started as immediately, the service starts one run and no second
\* one, also when the run or the construction of its scraper fails.
C22_ImmediatelyRunsOnce ==
    svc.given = "immediately"
       => Cardinality({i \in 1..Len(svc.events) : svc.events[i].kind = "run"}) <= 1

\* C23: a run that raised is followed by the sleep of ErrorWait under
\* run_scheduled, the startup run of hourly_immediate included, and by the
\* sleep of LegacyErrorWait under run_scraper_service.
C23_BackoffAfterEveryFailedRun ==
    \A i \in 1..(Len(svc.events) - 1) :
        (svc.events[i].kind = "run" /\ svc.events[i].raised)
           => /\ svc.events[i + 1].kind = "sleep"
              /\ svc.events[i + 1].seconds =
                    IF svc.given = "run_scraper_service" THEN LegacyErrorWait
                    ELSE ErrorWait

\* C24: a run of KVDScraper quits the driver exactly once, not before its
\* finally clause and on every path to it, and nothing but a failure of quit
\* itself leaves run as an exception.
C24_QuitExactlyOnce ==
    /\ svc.scraper.pc \in {"open", "page", "rows", "finally"} => svc.scraper.quits = 0
    /\ svc.scraper.pc \in {"returned", "raised"} => svc.scraper.quits = 1
    /\ svc.scraper.pc = "raised" => svc.scraper.quit_failed

C24_Witness ==
    /\ svc.scraper.pc = "returned"
    /\ svc.scraper.caught
    /\ svc.scraper.quits = 1

\* C25: a listing whose detail page was fetched and judged not sold is not
\* fetched again, in the same run or in a later one.
C25_UnsoldListingNeverFetchedAgain == svc.refetched = {}

\* C26: under run_scheduled, whatever schedule_type it received, a sleep lies
\* between any two consecutive runs.
C26_PositiveWaitBetweenRuns ==
    svc.given \notin {"once", "run_scraper_service"}
       => \A i \in 1..(Len(svc.events) - 1) :
             svc.events[i].kind = "run"
                => (svc.events[i + 1].kind = "sleep" /\ svc.events[i + 1].seconds > 0)

====
